---- MODULE Spec2Model ----
(***************************************************************************)
(* The tool-calling agent loop of SlidePilot (ai_agent.go) together with   *)
(* the tool handlers it dispatches to (slide_tools.go).                    *)
(*                                                                         *)
(* Strings that the code builds with fmt.Sprintf or receives as JSON are   *)
(* modelled as sequences of their pieces.                                  *)
(***************************************************************************)
EXTENDS Integers, Sequences, FiniteSets, TLC

\* ------------------------------------------------------------------ bounds
\* Total number of inference calls the provider answers in one behaviour.
MaxInferences == 2
\* Largest number of content items in one provider response.
MaxItems == 2
\* Total number of tool-use items the provider issues in one behaviour.
MaxToolUses == 2

\* ------------------------------------------------------ program constants
\* MaxTokens of every inference request.
MaxTokens == 2048
Model == "claude-3-7-sonnet-latest"

\* ------------------------------------------------------------ input sets
\* The presentation the session may have loaded.
DeckPath == "/decks/demo.pptx"
\* Texts the user types.
UserMessages == {"list the slides"}
\* Texts the provider answers with.
AssistantTexts == {<<"Done.">>}

VARIABLES
    conversation,             \* AIAgent.conversation
    currentPresentationPath,  \* App.currentPresentationPath
    pc,                       \* where SendMessage stands
    request,                  \* the inference request in flight (or the last one made)
    currentMessage,           \* SendMessage's local currentMessage
    idx,                      \* position of the range loop over currentMessage.Content
    toolResults,              \* SendMessage's local toolResults
    running,                  \* the tool-use item whose handler is executing
    ret,                      \* what the last SendMessage returned
    inferences,               \* inference calls answered so far (all invocations)
    toolUses,                 \* tool-use ids issued so far by the provider
    trace,                    \* this invocation's inference calls and tool executions
    rounds,                   \* this invocation's responses: tool-use items per response
    convAtStart,              \* the conversation when this invocation began
    appCtx,                   \* App.ctx, the context callers hand to SendMessage
    ctx,                      \* AIAgent.ctx
    emitted,                  \* the "ai-message" events given to runtime.EventsEmit
    logFile,                  \* the entries of slides/ai_conversation.log
    logWritable,              \* whether os.OpenFile on the log succeeds
    cancelled,                \* whether the caller's context has been cancelled
    world,                    \* what the handler that ran last met outside the process
    calls,                    \* the external commands the handler that ran last has run
    stdout,                   \* the warnings the handler that ran last has printed
    other,                    \* a second SendMessage invocation on the same agent
    imageCache,               \* App.imageCache
    methods,                  \* the App method calls in progress, each where it stands
    disk,                     \* the bytes of slides/slide-000.jpg, slide-001.jpg, ... on disk
    service                   \* startup's call of StartLibreOfficeHeadless, where it stands

vars == <<conversation, currentPresentationPath, pc, request, currentMessage, idx,
          toolResults, running, ret, inferences, toolUses, trace, rounds, convAtStart,
          appCtx, ctx, emitted, logFile, logWritable, cancelled, world, calls, stdout,
          other, imageCache, methods, disk, service>>

\* The variables of the two sinks, and those that no step of one SendMessage
\* invocation writes.
sinks == <<emitted, logFile>>
fixed == <<currentPresentationPath, appCtx, logWritable, other, imageCache, methods, service>>
fixed_session == <<currentPresentationPath, appCtx, logWritable, other, methods, service>>

\* What a handler leaves behind outside the conversation.
effects == <<world, calls, stdout, disk>>

\* ------------------------------------------------------------ the registry
\* NewAIAgent: the six tool definitions, in order.
Tools == <<"list_slides", "read_slide", "edit_slide_text",
           "export_slides", "add_slide", "delete_slide">>

ToolNames == {Tools[i] : i \in 1..Len(Tools)}

\* --------------------------------------------------- the world of a handler
\* What a handler meets outside the process when it runs: whether the
\* presentation file exists (os.Stat), how the python backend ends
\* (cmd.CombinedOutput) and how the PPTX -> JPEG conversion ends.
BackendOutcomes ==
    {"exit_nonzero", "not_json", "not_object", "success", "failure", "no_field"}

\* Number of slide images the glob of a conversion finds.
SlideCounts == {0, 2}

ConvertOutcomes == {"ok", "libreoffice_failed", "imagemagick_failed"}

Envs == [fileExists : BOOLEAN, backend : BackendOutcomes, slides : SlideCounts,
         convert : ConvertOutcomes]

\* The world before any handler ran.
NoEnv == [fileExists |-> FALSE, backend |-> "none", slides |-> 0, convert |-> "none"]

\* The combined output of the backend command.
BackendOutput(env) ==
    CASE env.backend = "exit_nonzero" -> <<"Traceback">>
      [] env.backend = "not_json"     -> <<"connecting...", "{\"success\": true}">>
      [] env.backend = "not_object"   -> <<"[]">>
      [] env.backend = "success"      -> <<"{\"success\": true}">>
      [] env.backend = "failure"      -> <<"{\"success\": false, \"error\": \"no such shape\"}">>
      [] env.backend = "no_field"     -> <<"{\"slides\": []}">>

\* json.Unmarshal(output, &result) succeeds for result interface{}.
IsJSON_Unchecked(env) == TRUE
IsJSON(env) == env.backend \in {"not_object", "success", "failure", "no_field"}

\* json.Unmarshal(output, &m) succeeds for m map[string]interface{}.
IsObject(env) == env.backend \in {"success", "failure", "no_field"}

\* editResult["success"].(bool) is ok and true.
SuccessTrue_Never(env) == FALSE
SuccessTrue(env) == env.backend = "success"

\* A handler's return value (string, error).
Ok(response) == [response |-> response, failed |-> FALSE, error |-> <<>>]
Err(message) == [response |-> <<>>, failed |-> TRUE, error |-> message]

\* An external command a handler runs (exec.Command) on a presentation.
Call(cmd, path, args) == [cmd |-> cmd, path |-> path, args |-> args]

\* A handler's return value together with what it did on the way: the
\* external commands it ran, in order, and the warnings it printed.
Ran(r, cmds, warnings) ==
    [response |-> r.response, failed |-> r.failed, error |-> r.error,
     calls |-> cmds, stdout |-> warnings]

NoPresentation == Err(<<"no presentation loaded - please load a presentation first">>)
ParseError == Err(<<"failed to parse input: ", "invalid character">>)

\* json.Unmarshal(input, &toolInput) returns an error.
DecodeFails_Ignored(input) == FALSE
DecodeFails(input) == ~input.decodes

\* The input names no presentation and the App has none loaded.
NoDocument_Unchecked(appPath, input) == FALSE
NoDocument(appPath, input) == input.presentation_path = "" /\ appPath = ""

\* The defaulting of presentation_path every handler starts with.
ResolvedPath(appPath, input) ==
    IF input.presentation_path = "" THEN appPath ELSE input.presentation_path

\* The index validation: SlideNumber < 1.
BelowOne_ZeroAccepted(n) == n < 0
BelowOne(n) == n < 1

\* filepath.Join(slidesDir, "slide-%03d.jpg") for the images 0 .. n-1.
SlideFiles(dir, n) == [i \in 1..n |-> <<dir, "/slide-", ToString(i - 1), ".jpg">>]

RECURSIVE Flatten(_)
Flatten(ss) == IF ss = <<>> THEN <<>> ELSE Head(ss) \o Flatten(Tail(ss))

\* ConvertPPTXToJPEG: the list of images, or an error; calls are the
\* commands it ran.
ConvertPPTXToJPEG(pptxPath, outputDir, env) ==
    LET slidesDir == IF outputDir # "" THEN outputDir ELSE "slides"
        office == Call("libreoffice", pptxPath, <<"--headless", "--convert-to", "pdf">>)
        magick == Call("convert", pptxPath, <<"-density", "150", slidesDir>>)
    IN
    IF env.convert = "libreoffice_failed"
    THEN [slides |-> <<>>, failed |-> TRUE, calls |-> <<office>>,
          error |-> <<"LibreOffice conversion failed: ", "exit status 1">>]
    ELSE IF env.convert = "imagemagick_failed"
    THEN [slides |-> <<>>, failed |-> TRUE, calls |-> <<office, magick>>,
          error |-> <<"ImageMagick conversion failed: ", "exit status 1">>]
    ELSE IF env.slides = 0
    THEN [slides |-> <<>>, failed |-> TRUE, calls |-> <<office, magick>>,
          error |-> <<"no JPEG files were generated">>]
    ELSE [slides |-> SlideFiles(slidesDir, env.slides), failed |-> FALSE,
          calls |-> <<office, magick>>, error |-> <<>>]

ListSlides(appPath, input, env) ==
    LET path == ResolvedPath(appPath, input)
        cmd == Call("scripts/uno_list_slides.py", path, <<>>)
    IN
    IF DecodeFails(input) THEN Ran(ParseError, <<>>, <<>>)
    ELSE IF NoDocument(appPath, input) THEN Ran(NoPresentation, <<>>, <<>>)
    ELSE IF ~env.fileExists
    THEN Ran(Err(<<"presentation file not found: ", path>>), <<>>, <<>>)
    ELSE IF env.backend = "exit_nonzero"
    THEN Ran(Err(<<"failed to list slides: ", "exit status 1", "\nOutput: ">>
                     \o BackendOutput(env)), <<cmd>>, <<>>)
    ELSE IF ~IsJSON(env)
    THEN Ran(Err(<<"invalid JSON output from UNO script: ", "invalid character">>),
             <<cmd>>, <<>>)
    ELSE Ran(Ok(BackendOutput(env)), <<cmd>>, <<>>)

ReadSlide(appPath, input, env) ==
    LET path == ResolvedPath(appPath, input)
        cmd == Call("scripts/uno_read_slide.py", path, <<ToString(input.slide_number)>>)
    IN
    IF DecodeFails(input) THEN Ran(ParseError, <<>>, <<>>)
    ELSE IF NoDocument(appPath, input) THEN Ran(NoPresentation, <<>>, <<>>)
    ELSE IF BelowOne(input.slide_number)
    THEN Ran(Err(<<"slide_number must be 1 or greater">>), <<>>, <<>>)
    ELSE IF env.backend = "exit_nonzero"
    THEN Ran(Err(<<"failed to read slide: ", "exit status 1", "\nOutput: ">>
                     \o BackendOutput(env)), <<cmd>>, <<>>)
    ELSE IF ~IsJSON(env)
    THEN Ran(Err(<<"invalid JSON output from UNO script: ", "invalid character">>),
             <<cmd>>, <<>>)
    ELSE Ran(Ok(BackendOutput(env)), <<cmd>>, <<>>)

\* The images ExportSlides keeps: those whose 0-based index is a requested
\* number minus one, all of them when no number was requested.
FilteredSlides(nums, slides) ==
    LET slideMap == {nums[k] - 1 : k \in 1..Len(nums)}
        kept == {i \in 1..Len(slides) : (i - 1) \in slideMap}
        pick[i \in 0..Len(slides)] ==
            IF i = 0 THEN <<>>
            ELSE IF i \in kept THEN Append(pick[i - 1], slides[i]) ELSE pick[i - 1]
    IN IF Len(nums) > 0 THEN pick[Len(slides)] ELSE slides

ExportSlides(appPath, input, env) ==
    LET path == ResolvedPath(appPath, input)
        outputDir == IF input.output_dir = "" THEN "slides" ELSE input.output_dir
        conv == ConvertPPTXToJPEG(path, outputDir, env)
        slides == FilteredSlides(input.slide_numbers, conv.slides)
    IN
    IF DecodeFails(input) THEN Ran(ParseError, <<>>, <<>>)
    ELSE IF NoDocument(appPath, input) THEN Ran(NoPresentation, <<>>, <<>>)
    ELSE IF conv.failed
    THEN Ran(Err(<<"failed to export slides: ">> \o conv.error), conv.calls, <<>>)
    ELSE Ran(Ok(<<"{\"output_dir\":", outputDir, ",\"slide_count\":", ToString(Len(slides)),
                  ",\"slides\":">> \o Flatten(slides) \o <<",\"success\":true}">>),
             conv.calls, <<>>)

\* The input EditSlideText marshals for its auto-export.
ExportInputOf(input, path) ==
    [input EXCEPT !.decodes = TRUE, !.presentation_path = path,
                  !.slide_numbers = <<input.slide_number>>, !.output_dir = "slides"]

EditSlideText(appPath, input, env) ==
    LET path == ResolvedPath(appPath, input)
        cmd == Call("scripts/uno_edit_slide.py", path,
                    <<ToString(input.slide_number), input.target_type, input.target_value,
                      input.new_text>>
                        \o (IF input.old_text # "" THEN <<input.old_text>> ELSE <<>>))
        export == ExportSlides(appPath, ExportInputOf(input, path), env)
    IN
    IF DecodeFails(input) THEN Ran(ParseError, <<>>, <<>>)
    ELSE IF NoDocument(appPath, input) THEN Ran(NoPresentation, <<>>, <<>>)
    ELSE IF ~env.fileExists
    THEN Ran(Err(<<"presentation file not found: ", path>>), <<>>, <<>>)
    ELSE IF BelowOne(input.slide_number)
    THEN Ran(Err(<<"slide_number must be 1 or greater">>), <<>>, <<>>)
    ELSE IF input.target_type = "" THEN Ran(Err(<<"target_type is required">>), <<>>, <<>>)
    ELSE IF input.target_value = "" THEN Ran(Err(<<"target_value is required">>), <<>>, <<>>)
    ELSE IF input.new_text = "" THEN Ran(Err(<<"new_text is required">>), <<>>, <<>>)
    ELSE IF input.target_type = "text_replace" /\ input.old_text = ""
    THEN Ran(Err(<<"old_text is required for text_replace mode">>), <<>>, <<>>)
    ELSE IF env.backend = "exit_nonzero"
    THEN Ran(Err(<<"failed to edit slide: ", "exit status 1", "\nOutput: ">>
                     \o BackendOutput(env)), <<cmd>>, <<>>)
    ELSE IF ~IsJSON(env)
    THEN Ran(Err(<<"invalid JSON output from UNO script: ", "invalid character">>),
             <<cmd>>, <<>>)
    ELSE IF IsObject(env) /\ SuccessTrue(env)
    THEN Ran(Ok(BackendOutput(env)), <<cmd>> \o export.calls,
             IF export.failed
             THEN <<<<"Warning: Failed to auto-export slide after edit: ">> \o export.error>>
             ELSE <<>>)
    ELSE Ran(Ok(BackendOutput(env)), <<cmd>>, <<>>)

\* AddSlide and DeleteSlide re-marshal the backend's result with the exported
\* images when the export that follows the backend call succeeds.
Enhanced(env, slides) ==
    <<"{\"exported_slides\":">> \o Flatten(slides) \o <<",\"slides_directory\":\"slides\",">>
        \o BackendOutput(env)

\* What AddSlide and DeleteSlide return once the export has been tried.
AfterExport_Escalated(env, conv) ==
    IF conv.failed THEN Err(<<"failed to export slides: ">> \o conv.error)
    ELSE Ok(Enhanced(env, conv.slides))
AfterExport(env, conv) ==
    IF conv.failed THEN Ok(BackendOutput(env)) ELSE Ok(Enhanced(env, conv.slides))

ExportWarning(conv) ==
    IF conv.failed THEN <<<<"Warning: Failed to export slides for preview: ">> \o conv.error>>
    ELSE <<>>

AddSlide(appPath, input, env) ==
    LET path == ResolvedPath(appPath, input)
        layout == IF input.layout = "" THEN "blank" ELSE input.layout
        cmd == Call("scripts/uno_add_slide.py", path,
                    <<IF input.position > 0 THEN ToString(input.position) ELSE "", layout>>
                        \o (IF input.title # "" THEN <<input.title>> ELSE <<>>))
        conv == ConvertPPTXToJPEG(path, "slides", env)
    IN
    IF DecodeFails(input) THEN Ran(ParseError, <<>>, <<>>)
    ELSE IF NoDocument(appPath, input) THEN Ran(NoPresentation, <<>>, <<>>)
    ELSE IF env.backend = "exit_nonzero"
    THEN Ran(Err(<<"failed to add slide: ", "exit status 1", "\nOutput: ">>
                     \o BackendOutput(env)), <<cmd>>, <<>>)
    ELSE IF ~IsJSON(env)
    THEN Ran(Err(<<"invalid JSON output from UNO script: ", "invalid character">>),
             <<cmd>>, <<>>)
    ELSE IF ~IsObject(env)
    THEN Ran(Err(<<"failed to parse add slide result: ", "cannot unmarshal array">>),
             <<cmd>>, <<>>)
    ELSE Ran(AfterExport(env, conv), <<cmd>> \o conv.calls, ExportWarning(conv))

DeleteSlide(appPath, input, env) ==
    LET path == ResolvedPath(appPath, input)
        cmd == Call("scripts/uno_delete_slide.py", path, <<ToString(input.slide_number)>>)
        conv == ConvertPPTXToJPEG(path, "slides", env)
    IN
    IF DecodeFails(input) THEN Ran(ParseError, <<>>, <<>>)
    ELSE IF NoDocument(appPath, input) THEN Ran(NoPresentation, <<>>, <<>>)
    ELSE IF BelowOne(input.slide_number)
    THEN Ran(Err(<<"slide_number must be 1 or greater">>), <<>>, <<>>)
    ELSE IF env.backend = "exit_nonzero"
    THEN Ran(Err(<<"failed to delete slide: ", "exit status 1", "\nOutput: ">>
                     \o BackendOutput(env)), <<cmd>>, <<>>)
    ELSE IF ~IsJSON(env)
    THEN Ran(Err(<<"invalid JSON output from UNO script: ", "invalid character">>),
             <<cmd>>, <<>>)
    ELSE IF ~IsObject(env)
    THEN Ran(Err(<<"failed to parse delete slide result: ", "cannot unmarshal array">>),
             <<cmd>>, <<>>)
    ELSE Ran(AfterExport(env, conv), <<cmd>> \o conv.calls, ExportWarning(conv))

\* toolDef.Function(a.app, input) for the definition registered under name.
ToolFunction(name, appPath, input, env) ==
    CASE name = "list_slides"     -> ListSlides(appPath, input, env)
      [] name = "read_slide"      -> ReadSlide(appPath, input, env)
      [] name = "edit_slide_text" -> EditSlideText(appPath, input, env)
      [] name = "export_slides"   -> ExportSlides(appPath, input, env)
      [] name = "add_slide"       -> AddSlide(appPath, input, env)
      [] name = "delete_slide"    -> DeleteSlide(appPath, input, env)

\* ------------------------------------------------------- messages and blocks
\* The zero value of every tool input struct, decoded from "{}".
EmptyInput ==
    [decodes |-> TRUE, presentation_path |-> "", slide_number |-> 0,
     slide_numbers |-> <<>>, output_dir |-> "", target_type |-> "", target_value |-> "",
     new_text |-> "", old_text |-> "", position |-> 0, layout |-> "", title |-> ""]

\* Raw input that json.Unmarshal rejects.
MalformedInput == [EmptyInput EXCEPT !.decodes = FALSE]

\* A content item of a provider response (anthropic.ContentBlockUnion).
TextItem(text) ==
    [type |-> "text", text |-> text, id |-> 0, name |-> "", input |-> EmptyInput]
ToolUseItem(id, name, input) ==
    [type |-> "tool_use", text |-> <<>>, id |-> id, name |-> name, input |-> input]

\* anthropic.NewTextBlock, anthropic.NewToolResultBlock, anthropic.NewUserMessage.
NewTextBlock(text) == [type |-> "text", text |-> text]
NewToolResultBlock(id, content, isError) ==
    [type |-> "tool_result", tool_use_id |-> id, content |-> content, is_error |-> isError]
NewUserMessage(blocks) == [role |-> "user", content |-> blocks]

\* Message.ToParam: the response as a conversation turn; the response's own
\* id and stop reason are dropped, each item becomes the block of its type.
ItemToParam(item) ==
    IF item.type = "text" THEN NewTextBlock(item.text)
    ELSE [type |-> "tool_use", id |-> item.id, name |-> item.name, input |-> item.input]
ToParam(message) ==
    [role |-> "assistant",
     content |-> [i \in 1..Len(message.content) |-> ItemToParam(message.content[i])]]

\* SendMessage's enhancement of the user's text (fmt.Sprintf).
EnhancedMessage_PathDropped(path, userMessage) == <<userMessage>>
EnhancedMessage(path, userMessage) ==
    IF path # ""
    THEN <<"Current presentation loaded: ", path, "\n\nUser request: ", userMessage>>
    ELSE <<userMessage>>

\* runInference: the request handed to client.Messages.New.
RunInference_Windowed(conv) ==
    [model |-> Model, max_tokens |-> MaxTokens, tools |-> Tools,
     messages |-> SubSeq(conv, IF Len(conv) > 2 THEN Len(conv) - 1 ELSE 1, Len(conv))]
RunInference_CatalogueShrinks(conv) ==
    [model |-> Model, max_tokens |-> MaxTokens, messages |-> conv,
     tools |-> IF Len(conv) > 1 THEN Tail(Tools) ELSE Tools]
RunInference(conv) ==
    [model |-> Model, max_tokens |-> MaxTokens, messages |-> conv, tools |-> Tools]

\* executeTool's lookup of name in a.tools.
Found(name) == \E i \in 1..Len(Tools) : Tools[i] = name

\* executeTool's two return statements after the handler ran.
HandlerResult_StaleId(id, r) ==
    IF r.failed THEN NewToolResultBlock(id - 1, r.error, TRUE)
    ELSE NewToolResultBlock(id - 1, r.response, FALSE)
HandlerResult_FirstId(id, r) ==
    IF r.failed THEN NewToolResultBlock(1, r.error, TRUE)
    ELSE NewToolResultBlock(1, r.response, FALSE)
HandlerResult_ErrorSwallowed(id, r) ==
    NewToolResultBlock(id, IF r.failed THEN r.error ELSE r.response, FALSE)
HandlerResult(id, r) ==
    IF r.failed THEN NewToolResultBlock(id, r.error, TRUE)
    ELSE NewToolResultBlock(id, r.response, FALSE)

\* executeTool's return when no definition has the name.
NotFoundResult_NoError(id) == NewToolResultBlock(id, <<"tool not found">>, FALSE)
NotFoundResult(id) == NewToolResultBlock(id, <<"tool not found">>, TRUE)

\* The loop's exit test: len(toolResults) == 0.
NoToolCalls_AtMostOne(results) == Len(results) <= 1
NoToolCalls_Never(results) == FALSE
NoToolCalls_LastFailed(results) ==
    IF Len(results) = 0 THEN TRUE ELSE results[Len(results)].is_error
NoToolCalls(results) == Len(results) = 0

\* The turn SendMessage appends before a follow-up inference.
ToolResultsTurn_LastOnly(results) == NewUserMessage(<<results[Len(results)]>>)
ToolResultsTurn(results) == NewUserMessage(results)

\* toolResults = append(toolResults, result).
Collect_DropErrors(results, result) ==
    IF result.is_error THEN results ELSE Append(results, result)
Collect_Prepend(results, result) == <<result>> \o results
Collect(results, result) == Append(results, result)

\* a.conversation = append(a.conversation, turn).
AppendTurn_Replace(conv, turn) ==
    IF conv = <<>> THEN <<turn>> ELSE [conv EXCEPT ![Len(conv)] = turn]
AppendTurn_SkipEmpty(conv, turn) == IF turn.content = <<>> THEN conv ELSE Append(conv, turn)
AppendTurn(conv, turn) == Append(conv, turn)

\* What SendMessage does with a failed inference call: it returns the error.
OnInferenceError_Retry(err) == [pc |-> "first_inference", ret |-> "pending"]
OnInferenceError(err) == [pc |-> "idle", ret |-> err]

NoItem == TextItem(<<>>)
NoMessage == [id |-> 0, role |-> "assistant", content |-> <<>>, stop_reason |-> ""]
NoRequest == [model |-> "", max_tokens |-> 0, messages |-> <<>>, tools |-> <<>>]

InferEvent == [ev |-> "infer", id |-> 0]
ToolStart(id) == [ev |-> "tool_start", id |-> id]
ToolEnd(id) == [ev |-> "tool_end", id |-> id]

\* ----------------------------------------------------------- the provider
\* Raw inputs the provider sends with a tool-use item.
ScriptedInputs == {EmptyInput}

\* What one content item can be, before the provider numbers the tool uses:
\* a text, a call of a registered tool, a call of a tool nobody registered.
ItemShapes ==
    {[type |-> "text", text |-> t, name |-> "", input |-> EmptyInput] : t \in AssistantTexts}
    \cup {[type |-> "tool_use", text |-> <<>>, name |-> "list_slides", input |-> i] :
             i \in ScriptedInputs}
    \cup {[type |-> "tool_use", text |-> <<>>, name |-> "rename_deck", input |-> EmptyInput]}

\* The worlds the handlers of one conversation meet.
ScriptedEnvs ==
    {env \in Envs : /\ env.backend \in {"exit_nonzero", "success"}
                    /\ env.fileExists
                    /\ env.slides = 2
                    /\ env.convert = "ok"}

ToolUseCount(content) == Cardinality({i \in 1..Len(content) : content[i].type = "tool_use"})

\* The provider numbers the tool-use items of a response with fresh ids.
Numbered(shapes, used) ==
    [i \in 1..Len(shapes) |->
        IF shapes[i].type = "text" THEN TextItem(shapes[i].text)
        ELSE ToolUseItem(used + ToolUseCount(SubSeq(shapes, 1, i)),
                         shapes[i].name, shapes[i].input)]

ResponseMessage(shapes, used, n) ==
    [id |-> n, role |-> "assistant", content |-> Numbered(shapes, used),
     stop_reason |-> IF ToolUseCount(shapes) > 0 THEN "tool_use" ELSE "end_turn"]

\* --------------------------------------------------------------- the sinks
\* string(content.Input): the raw input as it goes into the log.
RawInput(input) ==
    IF input.decodes
    THEN <<"{\"presentation_path\":\"", input.presentation_path, "\",\"slide_number\":",
           ToString(input.slide_number), "}">>
    ELSE <<"{\"presentation_path\":">>

\* logToFile's entry: "[timestamp] TYPE: message", the details when there are
\* any, and the separator line.
LogEntry(msgType, message, details) ==
    <<"[", "timestamp", "] ", msgType, ": ">> \o message \o <<"\n">>
        \o (IF details # <<>> THEN <<"Details: ">> \o details \o <<"\n">> ELSE <<>>)
        \o <<"---\n">>

\* logToFile: the entry is written when the file opens, dropped otherwise.
LogToFile(file, writable, entry) == IF writable THEN Append(file, entry) ELSE file

RECURSIVE LogAll(_, _, _)
LogAll(file, writable, entries) ==
    IF entries = <<>> THEN file
    ELSE LogAll(LogToFile(file, writable, Head(entries)), writable, Tail(entries))

\* emitMessage: with a context, the event is emitted and the message logged.
EmitEvents_TextDropped(c, message) ==
    IF c # "nil" /\ Head(message) = "*" THEN <<message>> ELSE <<>>
EmitEvents_Twice(c, message) == IF c # "nil" THEN <<message, message>> ELSE <<>>
EmitEvents(c, message) == IF c # "nil" THEN <<message>> ELSE <<>>
EmitEntries(c, message) ==
    IF c # "nil" THEN <<LogEntry("ASSISTANT", message, <<>>)>> ELSE <<>>

getToolDisplayName(toolName) ==
    CASE toolName = "list_slides"     -> <<"Listing slides">>
      [] toolName = "read_slide"      -> <<"Reading slide content">>
      [] toolName = "edit_slide_text" -> <<"Editing slide text">>
      [] toolName = "export_slides"   -> <<"Exporting slides">>
      [] toolName = "add_slide"       -> <<"Adding new slide">>
      [] toolName = "delete_slide"    -> <<"Deleting slide">>
      [] OTHER                        -> <<"Executing ", toolName>>

\* fmt.Sprintf("*%s...*", statusMsg).
StatusMessage(toolName) == <<"*">> \o getToolDisplayName(toolName) \o <<"...*">>

\* What SendMessage does for a tool-use item before it calls executeTool.
ToolCallEntries_NoEntry(c, item) == EmitEntries(c, StatusMessage(item.name))
ToolCallEntries(c, item) ==
    EmitEntries(c, StatusMessage(item.name))
        \o <<LogEntry("TOOL_CALL", <<"Tool: ", item.name>>, RawInput(item.input))>>

\* logToFile and emitMessage return nothing and recover from nothing: with no
\* file or no context they return early, and the caller goes on with its
\* next statement either way.
AfterSinks_FailureAborts(c, writable, next) == IF c = "nil" \/ ~writable THEN "idle" ELSE next
AfterSinks(c, writable, next) == next

\* ------------------------------------------------------------- the session
\* The slide images the frontend asks for, and what os.ReadFile finds in them.
SlidePaths == {"slides/slide-0.jpg"}
ImageBytes == {"JFIF demo", "JFIF other"}

\* filepath.Ext and the switch on it.
Ext(slidePath) == IF slidePath = "slides/slide-0.jpg" THEN ".jpg" ELSE ""
MimeType(ext) ==
    CASE ext \in {".jpg", ".jpeg"} -> "image/jpeg"
      [] ext = ".png"             -> "image/png"
      [] OTHER                    -> "image/jpeg"

\* base64.StdEncoding.EncodeToString.
Base64(bytes) ==
    CASE bytes = "JFIF demo"  -> "SkZJRiBkZW1v"
      [] bytes = "JFIF other" -> "SkZJRiBvdGhlcg=="
      [] OTHER                -> ""

\* fmt.Sprintf("data:%s;base64,%s", mimeType, base64Data).
DataURI(slidePath, bytes) == <<"data:", MimeType(Ext(slidePath)), ";base64,", Base64(bytes)>>

\* make(map[string]string), and a.imageCache[slidePath] = dataURI.
EmptyCache_EntriesKept == [p \in SlidePaths |-> DataURI(p, "JFIF demo")]
EmptyCache == [p \in {} |-> <<>>]
Cached(cache, slidePath, dataURI) ==
    [p \in DOMAIN cache \cup {slidePath} |-> IF p = slidePath THEN dataURI ELSE cache[p]]

\* The paths the frontend hands to LoadPresentation, and filepath.Abs with
\* /decks as the working directory.
LoadPaths == {"demo.pptx", "/decks/other.pptx"}
Abs(path) == IF path = "demo.pptx" THEN DeckPath ELSE path

\* filepath.Base.
Base(path) ==
    CASE path = DeckPath            -> "demo.pptx"
      [] path = "/decks/other.pptx" -> "other.pptx"
      [] OTHER                      -> path

\* The decks on disk: how many pages the PDF of each has, and the bytes of
\* the images ImageMagick renders from it.
Pages(pptxPath) == IF pptxPath = DeckPath THEN 2 ELSE 3
Render(pptxPath) == IF pptxPath = DeckPath THEN "JFIF demo" ELSE "JFIF other"

\* The slides directory after convert has written slide-000.jpg .. of an
\* n-page PDF into it: the files it had stay unless they are overwritten
\* (converter.go 47-51; nothing removes a file).
Written(files, bytes, n) ==
    [i \in 1..(IF n > Len(files) THEN n ELSE Len(files)) |-> IF i <= n THEN bytes ELSE files[i]]

\* The slides directory after a handler has run: a conversion into it that
\* succeeded has rendered the handler's presentation, and the glob has found
\* every file that is there now.
IntoSlides(r) ==
    {k \in 1..Len(r.calls) : r.calls[k].cmd = "convert"
                               /\ r.calls[k].args[Len(r.calls[k].args)] = "slides"}
DiskAfter(files, r, env) ==
    IF IntoSlides(r) # {} /\ env.convert = "ok"
    THEN Written(files, Render(r.calls[CHOOSE k \in IntoSlides(r) : TRUE].path), env.slides)
    ELSE files

\* What a conversion of an n-page deck into the slides directory meets.
ConversionEnv(files, n, outcome) ==
    [fileExists |-> TRUE, backend |-> "success", convert |-> outcome,
     slides |-> IF outcome = "ok" THEN Len(Written(files, "", n)) ELSE Len(files)]

\* The index of slides/slide-00N.jpg in the directory.
FileIndex(slidePath) == IF slidePath = "slides/slide-0.jpg" THEN 1 ELSE 0

\* ------------------------------------------------ the office service
\* The loop of StartLibreOfficeHeadless probes the port 10 times
\* (slide_service.go 34); a dial gives up after 500 ms (54) and the loop
\* sleeps 500 ms after a probe that failed (39).
MaxProbes == 10
DialTimeoutMs == 500
SleepMs == 500

\* How net.DialTimeout on 127.0.0.1:8100 ends, and isPortOpen.
DialOutcomes == {"open", "refused", "timeout"}
isPortOpen_Never(outcome) == FALSE
isPortOpen(outcome) == outcome = "open"
DialTime(outcome) == IF outcome = "timeout" THEN DialTimeoutMs ELSE 0

\* StartLibreOfficeHeadless has not been called; and the call that found the
\* port open at once.
NoService ==
    [pc |-> "idle", i |-> 0, first |-> "none", last |-> "none", launches |-> 0, probes |-> 0,
     elapsed |-> 0, ret |-> "none"]
AlreadyRunning ==
    [NoService EXCEPT !.pc = "done", !.first = "open", !.last = "open", !.ret = "nil"]

\* No App method is being called.
NoCalls ==
    [load  |-> [pc |-> "idle", path |-> "", slides |-> <<>>],
     image |-> [pc |-> "idle", path |-> "", data |-> <<>>],
     name  |-> [pc |-> "idle"],
     clear |-> [pc |-> "idle"]]

\* No second invocation is running.
NoOther ==
    [pc |-> "idle", conv |-> <<>>, turn |-> [role |-> "user", content |-> <<>>],
     request |-> [model |-> "", max_tokens |-> 0, messages |-> <<>>, tools |-> <<>>],
     content |-> <<>>, idx |-> 1, ret |-> "none"]

\* -------------------------------------------------------------------- Init
\* The agent as NewAIAgent leaves it, in an App that has started.
InitAgent ==
    /\ conversation = <<>>
    /\ currentPresentationPath \in {"", DeckPath}
    /\ pc = "idle"
    /\ request = NoRequest
    /\ currentMessage = NoMessage
    /\ idx = 1
    /\ toolResults = <<>>
    /\ running = NoItem
    /\ ret = "none"
    /\ inferences = 0
    /\ toolUses = 0
    /\ trace = <<>>
    /\ rounds = <<>>
    /\ convAtStart = <<>>
    /\ ctx = "nil"
    /\ emitted = <<>>
    /\ logFile = <<>>
    /\ cancelled = FALSE
    /\ world = NoEnv
    /\ disk = Written(<<>>, Render(currentPresentationPath),
                      IF currentPresentationPath = "" THEN 0 ELSE Pages(currentPresentationPath))
    /\ calls = <<>>
    /\ stdout = <<>>
    /\ other = NoOther
    /\ imageCache = EmptyCache
    /\ methods = NoCalls

Init ==
    /\ InitAgent
    /\ appCtx = "wails"
    /\ logWritable = TRUE
    /\ service = AlreadyRunning

\* ----------------------------------------------------------------- actions
\* SendMessage up to its first inference call (ai_agent.go 51-68).
SendMessage(userMessage) ==
    /\ pc = "idle"
    /\ inferences < MaxInferences
    /\ ctx' = appCtx
    /\ logFile' = LogToFile(logFile, logWritable, LogEntry("USER", <<userMessage>>, <<>>))
    /\ LET turn == NewUserMessage(<<NewTextBlock(
                       EnhancedMessage(currentPresentationPath, userMessage))>>)
       IN /\ conversation' = AppendTurn(conversation, turn)
          /\ request' = RunInference(AppendTurn(conversation, turn))
    /\ pc' = AfterSinks(appCtx, logWritable, "first_inference")
    /\ ret' = "pending"
    /\ trace' = <<InferEvent>>
    /\ rounds' = <<>>
    /\ convAtStart' = conversation
    /\ currentMessage' = NoMessage
    /\ idx' = 1
    /\ toolResults' = <<>>
    /\ UNCHANGED <<fixed, cancelled, effects, running, inferences, toolUses, emitted>>

\* The inference call in flight returns a message (ai_agent.go 68-79, 109-118).
InferenceReturns(shapes) ==
    /\ pc \in {"first_inference", "followup_inference"}
    /\ inferences < MaxInferences
    /\ toolUses + ToolUseCount(shapes) <= MaxToolUses
    /\ LET message == ResponseMessage(shapes, toolUses, inferences + 1)
       IN /\ conversation' = AppendTurn(conversation, ToParam(message))
          /\ currentMessage' = message
    /\ logFile' = IF pc = "followup_inference"
                  THEN LogToFile(logFile, logWritable,
                           LogEntry("DEBUG", <<"Follow-up inference completed successfully">>, <<>>))
                  ELSE logFile
    /\ idx' = 1
    /\ toolResults' = <<>>
    /\ pc' = "scan"
    /\ inferences' = inferences + 1
    /\ toolUses' = toolUses + ToolUseCount(shapes)
    /\ rounds' = Append(rounds, ToolUseCount(shapes))
    /\ UNCHANGED <<fixed, cancelled, effects, request, running, ret, trace, convAtStart, ctx, emitted>>

\* The inference call in flight fails (ai_agent.go 69-72, 110-113).
InferenceFails ==
    /\ pc \in {"first_inference", "followup_inference"}
    /\ inferences < MaxInferences
    /\ logFile' = LogToFile(logFile, logWritable,
                      LogEntry("ERROR",
                               IF pc = "first_inference" THEN <<"AI inference failed">>
                               ELSE <<"Follow-up inference failed">>,
                               <<"provider error">>))
    /\ pc' = OnInferenceError("provider error").pc
    /\ ret' = OnInferenceError("provider error").ret
    /\ inferences' = inferences + 1
    /\ UNCHANGED <<fixed, cancelled, effects, conversation, request, currentMessage, idx, toolResults, running,
                   toolUses, trace, rounds, convAtStart, ctx, emitted>>

\* The range loop meets a text item (ai_agent.go 84-88).
ScanText ==
    /\ pc = "scan"
    /\ idx <= Len(currentMessage.content)
    /\ LET item == currentMessage.content[idx]
       IN /\ item.type = "text"
          /\ emitted' = IF item.text # <<>> THEN emitted \o EmitEvents(ctx, item.text)
                        ELSE emitted
          /\ logFile' = IF item.text # <<>>
                        THEN LogAll(logFile, logWritable, EmitEntries(ctx, item.text))
                        ELSE logFile
    /\ idx' = idx + 1
    /\ UNCHANGED <<fixed, cancelled, effects, conversation, pc, request, currentMessage, toolResults, running,
                   ret, inferences, toolUses, trace, rounds, convAtStart, ctx>>

\* The range loop meets a tool-use item whose name is not registered:
\* executeTool returns at once (ai_agent.go 89-96, 196-209).
ToolNotFound ==
    /\ pc = "scan"
    /\ idx <= Len(currentMessage.content)
    /\ LET item == currentMessage.content[idx]
       IN /\ item.type = "tool_use"
          /\ ~Found(item.name)
          /\ emitted' = emitted \o EmitEvents(ctx, StatusMessage(item.name))
          /\ logFile' = LogAll(logFile, logWritable,
                            ToolCallEntries(ctx, item)
                                \o <<LogEntry("TOOL_ERROR", <<"Tool not found: ", item.name>>, <<>>)>>)
          /\ toolResults' = Collect(toolResults, NotFoundResult(item.id))
          /\ trace' = trace \o <<ToolStart(item.id), ToolEnd(item.id)>>
    /\ idx' = idx + 1
    /\ UNCHANGED <<fixed, cancelled, effects, conversation, pc, request, currentMessage, running, ret,
                   inferences, toolUses, rounds, convAtStart, ctx>>

\* The range loop meets a tool-use item of a registered tool: executeTool
\* calls the handler, which blocks (ai_agent.go 89-95, 196-219).
ToolStarts ==
    /\ pc = "scan"
    /\ idx <= Len(currentMessage.content)
    /\ LET item == currentMessage.content[idx]
       IN /\ item.type = "tool_use"
          /\ Found(item.name)
          /\ emitted' = emitted \o EmitEvents(ctx, StatusMessage(item.name))
          /\ logFile' = LogAll(logFile, logWritable,
                            ToolCallEntries(ctx, item)
                                \o <<LogEntry("TOOL_DEBUG",
                                        <<"Executing ", item.name, " with current presentation: ",
                                          IF currentPresentationPath # ""
                                          THEN currentPresentationPath ELSE "none">>,
                                        RawInput(item.input))>>)
          /\ running' = item
          /\ trace' = Append(trace, ToolStart(item.id))
    /\ calls' = <<>>
    /\ stdout' = <<>>
    /\ pc' = AfterSinks(ctx, logWritable, "tool")
    /\ UNCHANGED <<fixed, cancelled, world, disk, conversation, request, currentMessage, idx, toolResults, ret,
                   inferences, toolUses, rounds, convAtStart, ctx>>

\* The handler returns and executeTool wraps its result (ai_agent.go 219-226, 96).
ToolReturns(env) ==
    /\ pc = "tool"
    /\ LET r == ToolFunction(running.name, currentPresentationPath, running.input, env)
       IN /\ toolResults' = Collect(toolResults, HandlerResult(running.id, r))
          /\ logFile' = LogToFile(logFile, logWritable,
                            IF r.failed
                            THEN LogEntry("TOOL_ERROR", <<"Tool ", running.name, " failed">>, r.error)
                            ELSE LogEntry("TOOL_RESULT", <<"Tool ", running.name, " completed">>,
                                          r.response))
          /\ calls' = r.calls
          /\ stdout' = r.stdout
          /\ (IntoSlides(r) # {} /\ env.convert = "ok") => env.slides >= Len(disk)
          /\ disk' = DiskAfter(disk, r, env)
    /\ world' = env
    /\ trace' = Append(trace, ToolEnd(running.id))
    /\ running' = NoItem
    /\ idx' = idx + 1
    /\ pc' = AfterSinks(ctx, logWritable, "scan")
    /\ UNCHANGED <<fixed, cancelled, conversation, request, currentMessage, ret, inferences, toolUses,
                   rounds, convAtStart, ctx, emitted>>

\* The response held no tool-use item: SendMessage returns nil (ai_agent.go 100-103, 121).
Finish ==
    /\ pc = "scan"
    /\ idx > Len(currentMessage.content)
    /\ NoToolCalls(toolResults)
    /\ pc' = "idle"
    /\ ret' = "nil"
    /\ UNCHANGED <<fixed, cancelled, effects, sinks, conversation, request, currentMessage, idx, toolResults,
                   running, inferences, toolUses, trace, rounds, convAtStart, ctx>>

\* The round's results go back to the provider (ai_agent.go 105-109).
SendToolResults ==
    /\ pc = "scan"
    /\ idx > Len(currentMessage.content)
    /\ ~NoToolCalls(toolResults)
    /\ logFile' = LogToFile(logFile, logWritable,
                      LogEntry("DEBUG", <<"Running inference with ", ToString(Len(toolResults)),
                                          " tool results">>, <<>>))
    /\ conversation' = AppendTurn(conversation, ToolResultsTurn(toolResults))
    /\ request' = RunInference(AppendTurn(conversation, ToolResultsTurn(toolResults)))
    /\ trace' = Append(trace, InferEvent)
    /\ pc' = "followup_inference"
    /\ UNCHANGED <<fixed, cancelled, effects, currentMessage, idx, toolResults, running, ret, inferences,
                   toolUses, rounds, convAtStart, ctx, emitted>>

Responses == UNION {[1..n -> ItemShapes] : n \in 0..MaxItems}

Next ==
    \/ \E m \in UserMessages : SendMessage(m)
    \/ \E shapes \in Responses : InferenceReturns(shapes)
    \/ InferenceFails
    \/ ScanText
    \/ ToolNotFound
    \/ ToolStarts
    \/ \E env \in ScriptedEnvs : ToolReturns(env)
    \/ Finish
    \/ SendToolResults

Spec == Init /\ [][Next]_vars

\* The steps SendMessage takes by itself once a response is there, a
\* handler's return included; and the return of an inference call.
LoopSteps ==
    \/ ScanText
    \/ ToolNotFound
    \/ ToolStarts
    \/ \E env \in ScriptedEnvs : ToolReturns(env)
    \/ Finish
    \/ SendToolResults
InferenceAnswered ==
    \/ \E shapes \in Responses : InferenceReturns(shapes)
    \/ InferenceFails

\* The agent when every inference call and every handler returns.
SpecFair == Init /\ [][Next]_vars /\ WF_vars(LoopSteps) /\ WF_vars(InferenceAnswered)

\* ------------------------------------------------ the handlers, one call each
\* A second presentation, named by the input itself.
OtherPath == "/decks/other.pptx"
InputPaths == {"", OtherPath}
InputSlideNumbers == {-1, 0, 1, 2}

\* Inputs that decode, per tool: the fields of the tool's input struct vary,
\* json.Unmarshal leaves the others out.
ListSlidesInputs == {[EmptyInput EXCEPT !.presentation_path = p] : p \in InputPaths}
ReadSlideInputs ==
    {[EmptyInput EXCEPT !.presentation_path = p, !.slide_number = n] :
        p \in InputPaths, n \in InputSlideNumbers}
EditSlideTextInputs ==
    {[EmptyInput EXCEPT !.presentation_path = p, !.slide_number = n, !.target_type = tt,
                        !.target_value = tv, !.new_text = nt, !.old_text = ot] :
        p \in InputPaths, n \in {-1, 0, 1}, tt \in {"", "shape_type", "text_replace"},
        tv \in {"", "title"}, nt \in {"", "Hello"}, ot \in {"", "Hi"}}
ExportSlidesInputs ==
    {[EmptyInput EXCEPT !.presentation_path = p, !.slide_numbers = ns, !.output_dir = d] :
        p \in InputPaths, ns \in {<<>>, <<0>>, <<1>>, <<-1, 2>>, <<3>>}, d \in {"", "out"}}
AddSlideInputs ==
    {[EmptyInput EXCEPT !.presentation_path = p, !.position = n, !.title = t] :
        p \in InputPaths, n \in {-1, 0, 1}, t \in {"", "Intro"}}

\* Raw input with a field of the wrong type: json.Unmarshal fills the fields
\* it can and returns the error.
MistypedInput ==
    [EmptyInput EXCEPT !.decodes = FALSE, !.presentation_path = OtherPath, !.slide_number = 1]

InputsOf(name) ==
    {MalformedInput, MistypedInput} \cup
    (CASE name = "list_slides"     -> ListSlidesInputs
       [] name = "read_slide"      -> ReadSlideInputs
       [] name = "edit_slide_text" -> EditSlideTextInputs
       [] name = "export_slides"   -> ExportSlidesInputs
       [] name = "add_slide"       -> AddSlideInputs
       [] name = "delete_slide"    -> ReadSlideInputs)

\* The tool-use items the provider may send: the registered tools with their
\* inputs, and a tool nobody registered.
ToolCalls ==
    UNION {{[type |-> "tool_use", text |-> <<>>, name |-> n, input |-> i] : i \in InputsOf(n)} :
              n \in ToolNames}
    \cup {[type |-> "tool_use", text |-> <<>>, name |-> "rename_deck", input |-> EmptyInput]}

\* The provider answers the first inference call with one tool-use item.
FirstResponse(call) ==
    /\ pc = "first_inference"
    /\ InferenceReturns(<<call>>)

\* One SendMessage, up to the follow-up inference call that carries the
\* result of the tool the provider called.
NextTools ==
    \/ \E m \in UserMessages : SendMessage(m)
    \/ \E call \in ToolCalls : FirstResponse(call)
    \/ ToolNotFound
    \/ ToolStarts
    \/ \E env \in Envs : ToolReturns(env)
    \/ SendToolResults

\* The agent with a provider that calls any tool with any input, and
\* handlers that meet any world.
SpecTools == Init /\ [][NextTools]_vars

\* The caller cancels the context it handed (or will hand) to SendMessage.
\* SendMessage stores the context for the event emission and runs every
\* inference call on context.Background() (ai_agent.go 52, 68, 109).
Cancel ==
    /\ appCtx # "nil"
    /\ ~cancelled
    /\ cancelled' = TRUE
    /\ UNCHANGED <<fixed, effects, sinks, conversation, pc, request, currentMessage, idx,
                   toolResults, running, ret, inferences, toolUses, trace, rounds,
                   convAtStart, ctx>>

NextCancel == Next \/ Cancel

\* The agent with a caller that may cancel.
SpecCancel == Init /\ [][NextCancel]_vars

\* The agent of an App with a presentation loaded, whose sinks may be out of
\* order: SendMessage may be handed no context, and slides/ai_conversation.log
\* may be impossible to open.
InitSinks ==
    /\ InitAgent
    /\ currentPresentationPath = DeckPath
    /\ appCtx \in {"nil", "wails"}
    /\ logWritable \in BOOLEAN
    /\ service = AlreadyRunning

SpecSinks == InitSinks /\ [][Next]_vars

\* ------------------------------------------------- a process that hangs
\* The external process of the running handler never exits.  The handlers
\* start it with exec.Command and wait in cmd.CombinedOutput or cmd.Run
\* (slide_tools.go 50-52, converter.go 29-51), executeTool waits for the
\* handler (ai_agent.go 220): no context, timer or kill is involved, so
\* nothing takes SendMessage out of this wait.
ToolHangs ==
    /\ pc = "tool"
    /\ pc' = "blocked"
    /\ UNCHANGED <<fixed, cancelled, effects, sinks, conversation, request, currentMessage, idx,
                   toolResults, running, ret, inferences, toolUses, trace, rounds, convAtStart,
                   ctx>>

NextHang == Next \/ ToolHangs

\* The agent with handlers whose process may hang; every step that can be
\* taken is eventually taken.
SpecHang == Init /\ [][NextHang]_vars /\ WF_vars(NextHang)

\* ------------------------------------------------- a second invocation
\* The variables of the first invocation and of the App, which the steps of
\* a second invocation leave alone.
first == <<pc, request, currentMessage, idx, toolResults, running, ret, toolUses, trace, rounds,
           convAtStart, currentPresentationPath, appCtx, logWritable, cancelled, effects,
           imageCache, methods, service>>

\* A second SendMessageToAI call arrives while the App may still be in the
\* first: nothing in App or AIAgent makes it wait (app.go 51-57, ai_agent.go
\* 51-56).  It stores its context, logs the user's text and evaluates
\* append(a.conversation, userMsgParam).
OtherSendMessage(userMessage) ==
    /\ other.pc = "idle"
    /\ inferences < MaxInferences
    /\ ctx' = appCtx
    /\ logFile' = LogToFile(logFile, logWritable, LogEntry("USER", <<userMessage>>, <<>>))
    /\ other' = [other EXCEPT
                    !.pc = "append",
                    !.conv = conversation,
                    !.turn = NewUserMessage(<<NewTextBlock(
                                 EnhancedMessage(currentPresentationPath, userMessage))>>),
                    !.ret = "pending"]
    /\ UNCHANGED <<first, conversation, inferences, emitted>>

\* It assigns the appended slice to a.conversation, over whatever the first
\* invocation has stored there meanwhile, and issues its first inference
\* call (ai_agent.go 65-68).
OtherAppends ==
    /\ other.pc = "append"
    /\ conversation' = AppendTurn(other.conv, other.turn)
    /\ other' = [other EXCEPT !.pc = "first_inference",
                              !.request = RunInference(AppendTurn(other.conv, other.turn))]
    /\ UNCHANGED <<first, inferences, ctx, sinks>>

\* Its inference call returns a text (ai_agent.go 68-79).
OtherInferenceReturns(text) ==
    /\ other.pc = "first_inference"
    /\ inferences < MaxInferences
    /\ LET message == ResponseMessage(<<[type |-> "text", text |-> text, name |-> "",
                                         input |-> EmptyInput]>>, toolUses, inferences + 1)
       IN /\ conversation' = AppendTurn(conversation, ToParam(message))
          /\ other' = [other EXCEPT !.pc = "scan", !.content = message.content, !.idx = 1]
    /\ inferences' = inferences + 1
    /\ UNCHANGED <<first, ctx, sinks>>

\* Its inference call fails (ai_agent.go 69-72).
OtherInferenceFails ==
    /\ other.pc = "first_inference"
    /\ inferences < MaxInferences
    /\ logFile' = LogToFile(logFile, logWritable,
                      LogEntry("ERROR", <<"AI inference failed">>, <<"provider error">>))
    /\ other' = [other EXCEPT !.pc = "idle", !.ret = "provider error"]
    /\ inferences' = inferences + 1
    /\ UNCHANGED <<first, conversation, ctx, emitted>>

\* Its range loop meets the text (ai_agent.go 84-88).
OtherScanText ==
    /\ other.pc = "scan"
    /\ other.idx <= Len(other.content)
    /\ LET item == other.content[other.idx]
       IN /\ emitted' = IF item.text # <<>> THEN emitted \o EmitEvents(ctx, item.text)
                        ELSE emitted
          /\ logFile' = IF item.text # <<>>
                        THEN LogAll(logFile, logWritable, EmitEntries(ctx, item.text))
                        ELSE logFile
    /\ other' = [other EXCEPT !.idx = other.idx + 1]
    /\ UNCHANGED <<first, conversation, inferences, ctx>>

\* It returns nil (ai_agent.go 100-103, 121).
OtherFinish ==
    /\ other.pc = "scan"
    /\ other.idx > Len(other.content)
    /\ other' = [other EXCEPT !.pc = "idle", !.ret = "nil"]
    /\ UNCHANGED <<first, conversation, inferences, ctx, sinks>>

NextOverlap ==
    \/ Next
    \/ \E m \in UserMessages : OtherSendMessage(m)
    \/ OtherAppends
    \/ \E text \in AssistantTexts : OtherInferenceReturns(text)
    \/ OtherInferenceFails
    \/ OtherScanText
    \/ OtherFinish

\* The agent of an App whose frontend sends a second message before the
\* first was answered.
SpecOverlap == Init /\ [][NextOverlap]_vars

\* ------------------------------------------------------ the App's methods
\* The frontend calls the bound methods of App whenever it likes, each call
\* on a goroutine of its own; App has no lock (app.go 16-21).  A call stands
\* before the statement that touches a field of App, or waits for a file or
\* a process.
agent == <<conversation, pc, request, currentMessage, idx, toolResults, running, ret,
           inferences, toolUses, trace, rounds, convAtStart, appCtx, ctx, sinks, logWritable,
           cancelled, effects, other, service>>

\* LoadPresentation is called (app.go 118).
LoadPresentation(pptxPath) ==
    /\ methods.load.pc = "idle"
    /\ methods' = [methods EXCEPT !.load = [pc |-> "clear", path |-> pptxPath, slides |-> <<>>]]
    /\ UNCHANGED <<agent, currentPresentationPath, imageCache>>

\* It empties the cache: ClearImageCache (app.go 120, 184-187).
LoadClearsCache ==
    /\ methods.load.pc = "clear"
    /\ imageCache' = EmptyCache
    /\ methods' = [methods EXCEPT !.load.pc = "convert"]
    /\ UNCHANGED <<agent, currentPresentationPath>>

\* Where LoadPresentation stands once the conversion has returned: it has
\* returned the error, or goes on to store the path with the slides in hand
\* (app.go 128-135).
Converted_StoresOnFailure(absPath, r) == [pc |-> "store", path |-> absPath, slides |-> r.slides]
Converted(absPath, r) ==
    IF r.failed THEN NoCalls.load
    ELSE [pc |-> "store", path |-> absPath, slides |-> r.slides]

\* The conversion of the absolute path returns (app.go 123-132).
LoadConverts(outcome) ==
    /\ methods.load.pc = "convert"
    /\ LET absPath == Abs(methods.load.path)
           env == ConversionEnv(disk, Pages(absPath), outcome)
       IN /\ methods' = [methods EXCEPT !.load =
                            Converted(absPath, ConvertPPTXToJPEG(absPath, "slides", env))]
          /\ disk' = IF outcome = "ok" THEN Written(disk, Render(absPath), Pages(absPath))
                     ELSE disk
    /\ UNCHANGED <<conversation, pc, request, currentMessage, idx, toolResults, running, ret,
                   inferences, toolUses, trace, rounds, convAtStart, appCtx, ctx, sinks,
                   logWritable, cancelled, world, calls, stdout, other, service,
                   currentPresentationPath, imageCache>>

\* It stores the path and returns the slides (app.go 135-138).
LoadStoresPath ==
    /\ methods.load.pc = "store"
    /\ currentPresentationPath' = methods.load.path
    /\ methods' = [methods EXCEPT !.load = NoCalls.load]
    /\ UNCHANGED <<agent, imageCache>>

\* ClearImageCache is called by the frontend (app.go 184).
ClearImageCache ==
    /\ methods.clear.pc = "idle"
    /\ methods' = [methods EXCEPT !.clear.pc = "clear"]
    /\ UNCHANGED <<agent, currentPresentationPath, imageCache>>

\* It replaces the map (app.go 186).
ClearReplacesMap ==
    /\ methods.clear.pc = "clear"
    /\ imageCache' = EmptyCache
    /\ methods' = [methods EXCEPT !.clear.pc = "idle"]
    /\ UNCHANGED <<agent, currentPresentationPath>>

\* GetSlideImageAsBase64 or GetSlideImageQuiet is called (app.go 150, 195);
\* the two differ only in what they return, see Served and Loaded.
GetSlideImage(slidePath, quiet) ==
    /\ methods.image.pc = "idle"
    /\ quiet \in BOOLEAN
    /\ methods' = [methods EXCEPT !.image =
                      [pc |-> "check", path |-> slidePath, data |-> <<>>]]
    /\ UNCHANGED <<agent, currentPresentationPath, imageCache>>

\* What a call of GetSlideImageAsBase64 or GetSlideImageQuiet returns when
\* the path is in the cache, and when it has just been loaded.
Served(cache, slidePath, quiet) ==
    IF quiet THEN <<"CACHED_BASE64_DATA_AVAILABLE">> ELSE cache[slidePath]
Loaded(dataURI, quiet) == IF quiet THEN <<"BASE64_DATA_LOADED">> ELSE dataURI

\* It looks the path up in the cache and on a hit returns what is cached
\* (app.go 152-154, 197-199).
ImageChecksCache ==
    /\ methods.image.pc = "check"
    /\ methods' = [methods EXCEPT !.image =
                      IF methods.image.path \in DOMAIN imageCache
                      THEN NoCalls.image
                      ELSE [methods.image EXCEPT !.pc = "read"]]
    /\ UNCHANGED <<agent, currentPresentationPath, imageCache>>

\* os.ReadFile returns the bytes and the data URI is built (app.go 156-175, 202-219).
ImageReadsFile(bytes) ==
    /\ methods.image.pc = "read"
    /\ FileIndex(methods.image.path) \in DOMAIN disk
    /\ bytes = disk[FileIndex(methods.image.path)]
    /\ methods' = [methods EXCEPT !.image =
                      [methods.image EXCEPT !.pc = "store",
                                            !.data = DataURI(methods.image.path, bytes)]]
    /\ UNCHANGED <<agent, currentPresentationPath, imageCache>>

\* os.ReadFile fails and the call returns the error (app.go 157-159, 203-205).
ImageReadFails ==
    /\ methods.image.pc = "read"
    /\ FileIndex(methods.image.path) \notin DOMAIN disk
    /\ methods' = [methods EXCEPT !.image = NoCalls.image]
    /\ UNCHANGED <<agent, currentPresentationPath, imageCache>>

\* It caches the data URI and returns (app.go 178-181, 220-226).
ImageStores ==
    /\ methods.image.pc = "store"
    /\ imageCache' = Cached(imageCache, methods.image.path, methods.image.data)
    /\ methods' = [methods EXCEPT !.image = NoCalls.image]
    /\ UNCHANGED <<agent, currentPresentationPath>>

\* GetCurrentPresentationName or HasPresentationLoaded is called (app.go 229, 238).
GetCurrentPresentationName ==
    /\ methods.name.pc = "idle"
    /\ methods' = [methods EXCEPT !.name.pc = "read"]
    /\ UNCHANGED <<agent, currentPresentationPath, imageCache>>

\* What GetCurrentPresentationName returns for the path it reads.
PresentationName(path) == IF path = "" THEN "" ELSE Base(path)

\* It reads the path and returns the name, or whether there is one
\* (app.go 230-234, 239).
NameReadsPath ==
    /\ methods.name.pc = "read"
    /\ methods' = [methods EXCEPT !.name.pc = "idle"]
    /\ UNCHANGED <<agent, currentPresentationPath, imageCache>>

\* SendMessageToAI calls the agent (app.go 52).
SendMessageToAI(message) ==
    /\ ret = "none"
    /\ SendMessage(message)

\* The provider's answers in a session: a call of list_slides on the loaded
\* presentation, then an answer without content.
SessionCall == [type |-> "tool_use", text |-> <<>>, name |-> "list_slides", input |-> EmptyInput]
LastResponse ==
    /\ pc = "followup_inference"
    /\ InferenceReturns(<<>>)

\* The provider fails on the first call of an invocation.
FirstInferenceFails ==
    /\ pc = "first_inference"
    /\ InferenceFails

\* The worlds the handlers meet in a session.
SessionEnvs == {env \in ScriptedEnvs : env.backend = "success"}

\* SendMessage has returned: SendMessageToAI empties the cache and returns
\* (app.go 53-56).
AIClearsCache ==
    /\ pc = "idle"
    /\ ret \in {"nil", "provider error"}
    /\ imageCache' = EmptyCache
    /\ ret' = "none"
    /\ UNCHANGED <<fixed_session, conversation, pc, request, currentMessage, idx, toolResults,
                   running, inferences, toolUses, trace, rounds, convAtStart, ctx, sinks,
                   cancelled, effects>>

NextSession ==
    \/ \E p \in LoadPaths : LoadPresentation(p)
    \/ LoadClearsCache
    \/ \E outcome \in {"ok", "libreoffice_failed"} : LoadConverts(outcome)
    \/ LoadStoresPath
    \/ ClearImageCache
    \/ ClearReplacesMap
    \/ \E p \in SlidePaths, quiet \in BOOLEAN : GetSlideImage(p, quiet)
    \/ ImageChecksCache
    \/ \E bytes \in ImageBytes : ImageReadsFile(bytes)
    \/ ImageReadFails
    \/ ImageStores
    \/ GetCurrentPresentationName
    \/ NameReadsPath
    \/ \E m \in UserMessages : SendMessageToAI(m)
    \/ FirstResponse(SessionCall)
    \/ ToolStarts
    \/ \E env \in SessionEnvs : ToolReturns(env)
    \/ SendToolResults
    \/ LastResponse
    \/ FirstInferenceFails
    \/ Finish
    \/ AIClearsCache

\* The App as NewApp and startup leave it: nothing loaded, nothing cached.
InitSession ==
    /\ Init
    /\ currentPresentationPath = ""

SpecSession == InitSession /\ [][NextSession]_vars

\* ------------------------------------------------------------- startup
rest == <<conversation, currentPresentationPath, pc, request, currentMessage, idx,
          toolResults, running, ret, inferences, toolUses, trace, rounds, convAtStart,
          appCtx, ctx, emitted, logFile, logWritable, cancelled, world, calls, stdout,
          other, imageCache, methods, disk>>

\* startup calls StartLibreOfficeHeadless (app.go 36, slide_service.go 11).
StartLibreOfficeHeadless ==
    /\ service.pc = "idle"
    /\ service' = [service EXCEPT !.pc = "check"]
    /\ UNCHANGED rest

\* The probe before the launch: with the port open the call returns nil
\* (slide_service.go 13-16).
FirstProbe(outcome) ==
    /\ service.pc = "check"
    /\ service' = [service EXCEPT
                      !.pc = IF isPortOpen(outcome) THEN "done" ELSE "launch",
                      !.first = outcome,
                      !.last = outcome,
                      !.elapsed = @ + DialTime(outcome),
                      !.ret = IF isPortOpen(outcome) THEN "nil" ELSE "none"]
    /\ UNCHANGED rest

\* cmd.Start of soffice: the error is returned, or the loop begins
\* (slide_service.go 20-34).
Launch(started) ==
    /\ service.pc = "launch"
    /\ service' = [service EXCEPT
                      !.pc = IF started THEN "loop" ELSE "done",
                      !.launches = @ + 1,
                      !.i = 0,
                      !.ret = IF started THEN "none" ELSE "failed to start LibreOffice"]
    /\ UNCHANGED rest

\* A probe of the loop: with the port open the call returns nil, otherwise
\* the loop sleeps (slide_service.go 34-39).
LoopProbe(outcome) ==
    /\ service.pc = "loop"
    /\ service.i < MaxProbes
    /\ service' = [service EXCEPT
                      !.pc = IF isPortOpen(outcome) THEN "done" ELSE "sleep",
                      !.last = outcome,
                      !.probes = @ + 1,
                      !.elapsed = @ + DialTime(outcome),
                      !.ret = IF isPortOpen(outcome) THEN "nil" ELSE "none"]
    /\ UNCHANGED rest

\* time.Sleep returns and i++ (slide_service.go 39, 34).
Sleeps ==
    /\ service.pc = "sleep"
    /\ service' = [service EXCEPT !.pc = "loop", !.i = @ + 1, !.elapsed = @ + SleepMs]
    /\ UNCHANGED rest

\* The loop ends without an open port: the error is returned
\* (slide_service.go 34, 42).
GivesUp ==
    /\ service.pc = "loop"
    /\ ~(service.i < MaxProbes)
    /\ service' = [service EXCEPT !.pc = "done",
                                  !.ret = "LibreOffice headless service failed to start"]
    /\ UNCHANGED rest

NextService ==
    \/ StartLibreOfficeHeadless
    \/ \E outcome \in DialOutcomes : FirstProbe(outcome)
    \/ \E started \in BOOLEAN : Launch(started)
    \/ \E outcome \in DialOutcomes : LoopProbe(outcome)
    \/ Sleeps
    \/ GivesUp

\* The App when startup has stored the context and is about to call
\* StartLibreOfficeHeadless (app.go 33-36).
InitService ==
    /\ InitAgent
    /\ currentPresentationPath = ""
    /\ appCtx = "wails"
    /\ logWritable = TRUE
    /\ service = NoService

\* The call runs on: neither a dial nor the sleep nor cmd.Start blocks
\* for ever.
SpecService == InitService /\ [][NextService]_vars /\ WF_vars(NextService)

\* ------------------------------------------- after an aborted invocation
\* The agent after one SendMessage with a presentation loaded: the provider
\* called list_slides, the handler succeeded, the results were appended and
\* the follow-up inference call failed (ai_agent.go 105-113).
AbortedEnv == [fileExists |-> TRUE, backend |-> "success", slides |-> 2, convert |-> "ok"]
AbortedMessage == ResponseMessage(<<SessionCall>>, 0, 1)
AbortedRun == ToolFunction("list_slides", DeckPath, EmptyInput, AbortedEnv)
AbortedResults == <<HandlerResult(1, AbortedRun)>>
AbortedConversation ==
    <<NewUserMessage(<<NewTextBlock(EnhancedMessage(DeckPath, "list the slides"))>>),
      ToParam(AbortedMessage),
      ToolResultsTurn(AbortedResults)>>
AbortedLog ==
    <<LogEntry("USER", <<"list the slides">>, <<>>)>>
        \o ToolCallEntries("wails", AbortedMessage.content[1])
        \o <<LogEntry("TOOL_DEBUG",
                      <<"Executing ", "list_slides", " with current presentation: ", DeckPath>>,
                      RawInput(EmptyInput)),
             LogEntry("TOOL_RESULT", <<"Tool ", "list_slides", " completed">>, AbortedRun.response),
             LogEntry("DEBUG", <<"Running inference with ", "1", " tool results">>, <<>>),
             LogEntry("ERROR", <<"Follow-up inference failed">>, <<"provider error">>)>>

\* That state; the count of answered inference calls starts again.
InitAborted ==
    /\ conversation = AbortedConversation
    /\ currentPresentationPath = DeckPath
    /\ pc = "idle"
    /\ request = RunInference(AbortedConversation)
    /\ currentMessage = AbortedMessage
    /\ idx = 2
    /\ toolResults = AbortedResults
    /\ running = NoItem
    /\ ret = "provider error"
    /\ inferences = 0
    /\ toolUses = 1
    /\ trace = <<InferEvent, ToolStart(1), ToolEnd(1), InferEvent>>
    /\ rounds = <<1>>
    /\ convAtStart = <<>>
    /\ appCtx = "wails"
    /\ ctx = "wails"
    /\ emitted = <<StatusMessage("list_slides")>>
    /\ logFile = AbortedLog
    /\ logWritable = TRUE
    /\ cancelled = FALSE
    /\ world = AbortedEnv
    /\ service = AlreadyRunning
    /\ disk = Written(<<>>, Render(DeckPath), Pages(DeckPath))
    /\ calls = AbortedRun.calls
    /\ stdout = AbortedRun.stdout
    /\ other = NoOther
    /\ imageCache = EmptyCache
    /\ methods = NoCalls

SpecAborted == InitAborted /\ [][Next]_vars

\* The accesses to the two shared fields that are about to happen, each the
\* next statement of a call in progress: the handlers read the path when the
\* input names none (slide_tools.go 34-41), SendMessageToAI empties the cache
\* once SendMessage has returned.
ReadsPath ==
    \/ methods.name.pc = "read"
    \/ pc = "tool" /\ running.input.decodes /\ running.input.presentation_path = ""
WritesPath == methods.load.pc = "store"
ReadsCache == methods.image.pc = "check"
WritesCache ==
    \/ methods.load.pc = "clear"
    \/ methods.clear.pc = "clear"
    \/ pc = "idle" /\ ret \in {"nil", "provider error"}

\* ------------------------------------------------------------------ helpers
IsPrefix(s, t) == Len(s) <= Len(t) /\ SubSeq(t, 1, Len(s)) = s

InFlight == pc \in {"first_inference", "followup_inference"}

\* The range loop over the current response has ended.
ScanDone == pc = "scan" /\ idx > Len(currentMessage.content)

Events(tr) == [i \in 1..Len(tr) |-> tr[i].ev]
CountEv(tr, ev) == Cardinality({i \in 1..Len(tr) : tr[i].ev = ev})

\* ------------------------------------------------------------- properties

\* C1: SendMessage leaves the scan of a response in exactly two ways.  After a
\* response with zero tool-use items it returns nil and issues no inference
\* call; after a response with at least one tool-use item it has executed
\* every one of them and issues another inference call.  It leaves the scan
\* only when every item has been scanned.
C1_StopStep ==
    (pc = "scan" /\ pc' \notin {"scan", "tool"}) =>
        /\ idx > Len(currentMessage.content)
        /\ IF ToolUseCount(currentMessage.content) = 0
           THEN /\ pc' = "idle" /\ ret' = "nil"
                /\ trace' = trace /\ request' = request /\ conversation' = conversation
           ELSE /\ pc' = "followup_inference" /\ ret' = "pending"
                /\ CountEv(trace', "infer") = CountEv(trace, "infer") + 1
                /\ Len(toolResults) = ToolUseCount(currentMessage.content)
C1_StopsExactlyOnZeroToolUses == [][C1_StopStep]_vars

\* C1's case: an invocation that looped once, on a response with two
\* tool-use items, and then stopped.
C1_Witness ==
    pc = "idle" /\ ret = "nil" /\ Len(rounds) = 2 /\ rounds[1] = 2 /\ rounds[2] = 0

\* C2: when the provider answered k rounds with exactly one tool-use item and
\* then one round with none, the invocation has returned nil (or is about to,
\* the scan being over) after exactly k+1 inference calls and k tool
\* executions, strictly alternating; for k = 0 that is one inference call.
RECURSIVE Alternating(_)
Alternating(k) ==
    IF k = 0 THEN <<"infer">>
    ELSE Alternating(k - 1) \o <<"tool_start", "tool_end", "infer">>

OnesThenZero(r) ==
    /\ Len(r) >= 1
    /\ r[Len(r)] = 0
    /\ \A i \in 1..(Len(r) - 1) : r[i] = 1

C2_AlternatingRounds ==
    (OnesThenZero(rounds) /\ ~(pc = "scan" /\ idx <= Len(currentMessage.content))) =>
        /\ pc \in {"scan", "idle"}
        /\ pc = "idle" => ret = "nil"
        /\ Events(trace) = Alternating(Len(rounds) - 1)
        /\ CountEv(trace, "infer") = Len(rounds)
        /\ CountEv(trace, "tool_start") = Len(rounds) - 1
        /\ CountEv(trace, "tool_end") = Len(rounds) - 1

\* C2's case: k = 1, with the alternating trace.
C2_Witness ==
    /\ pc = "idle" /\ ret = "nil" /\ rounds = <<1, 0>>
    /\ Events(trace) = <<"infer", "tool_start", "tool_end", "infer">>

\* C3: a failed inference call (first or follow-up) makes SendMessage return
\* that error; the step issues no inference call, executes no tool and leaves
\* the conversation alone, and nothing more happens in that invocation: the
\* next inference call belongs to a new SendMessage.
C3_FailStep ==
    /\ (InFlight /\ inferences' = inferences + 1 /\ rounds' = rounds) =>
          /\ pc' = "idle" /\ ret' = "provider error"
          /\ trace' = trace /\ request' = request /\ conversation' = conversation
          /\ toolResults' = toolResults
    /\ (pc = "idle" /\ ret = "provider error") =>
          \/ UNCHANGED vars
          \/ (ret' = "pending" /\ Len(conversation') = Len(conversation) + 1
              /\ conversation'[Len(conversation')].content[1].type = "text"
              /\ trace' = <<InferEvent>>)
C3_InferenceErrorIsFatal == [][C3_FailStep]_vars

\* C3's case: a follow-up inference failed after a tool ran.
C3_Witness ==
    pc = "idle" /\ ret = "provider error" /\ CountEv(trace, "tool_end") > 0

\* The tool-use blocks of a conversation turn, in order, and their ids.
ToolUseBlocks(turn) == SelectSeq(turn.content, LAMBDA b : b.type = "tool_use")
ToolResultBlocks(turn) == SelectSeq(turn.content, LAMBDA b : b.type = "tool_result")
ToolUseIds(turn) == [i \in 1..Len(ToolUseBlocks(turn)) |-> ToolUseBlocks(turn)[i].id]
ToolResultIds(turn) ==
    [i \in 1..Len(ToolResultBlocks(turn)) |-> ToolResultBlocks(turn)[i].tool_use_id]
Range(f) == {f[i] : i \in DOMAIN f}

\* The tool-use items of the current response, in order.
CurrentToolUses == SelectSeq(currentMessage.content, LAMBDA it : it.type = "tool_use")

\* C4: a tool execution that ends in an error does not abort the loop.  The
\* step that records an is_error result leaves SendMessage scanning the same
\* response at the next item, exactly as a success does; and when the
\* follow-up inference call is in flight the turn before it holds one result
\* per tool-use item of the response, the failed ones included, and the
\* request carries that turn.
C4_ErrorStep ==
    (Len(toolResults') = Len(toolResults) + 1 /\ toolResults'[Len(toolResults')].is_error) =>
        /\ pc' = "scan" /\ ret' = "pending"
        /\ idx' = idx + 1
        /\ currentMessage' = currentMessage
        /\ SubSeq(toolResults', 1, Len(toolResults)) = toolResults
        /\ conversation' = conversation
C4_BatchComplete ==
    pc = "followup_inference" =>
        /\ Len(conversation) >= 2
        /\ conversation[Len(conversation)] = NewUserMessage(toolResults)
        /\ Len(toolResults) = Len(CurrentToolUses)
        /\ request.messages[Len(request.messages)] = conversation[Len(conversation)]
C4_ToolErrorDoesNotAbort == []C4_BatchComplete /\ [][C4_ErrorStep]_vars

\* C4's case: the first tool of a response failed, the second ran and
\* succeeded, and both results are on their way to the provider.
C4_Witness ==
    /\ pc = "followup_inference"
    /\ Len(toolResults) = 2
    /\ toolResults[1].is_error /\ toolResults[1].content # <<"tool not found">>
    /\ ~toolResults[2].is_error

\* C5: a tool call whose name is not registered yields the result
\* (is_error = true, "tool not found") for its id, no handler is invoked (the
\* loop never waits on a handler for such a name), and the loop goes on with
\* the next item.
C5_UnknownStep ==
    (/\ pc = "scan" /\ idx <= Len(currentMessage.content)
     /\ currentMessage.content[idx].type = "tool_use"
     /\ currentMessage.content[idx].name \notin ToolNames) =>
        \/ UNCHANGED vars
        \/ /\ toolResults' = Append(toolResults,
                 [type |-> "tool_result", tool_use_id |-> currentMessage.content[idx].id,
                  content |-> <<"tool not found">>, is_error |-> TRUE])
           /\ pc' = "scan" /\ ret' = "pending" /\ idx' = idx + 1
           /\ running' = NoItem
C5_NoHandlerForUnknown == pc = "tool" => running.name \in ToolNames
C5_UnknownToolNotFound == []C5_NoHandlerForUnknown /\ [][C5_UnknownStep]_vars

\* C5's case: the result of an unregistered tool went back to the provider
\* and the provider answered.
C5_Witness ==
    /\ pc = "scan"
    /\ Len(conversation) >= 3
    /\ conversation[Len(conversation) - 1].role = "user"
    /\ \E i \in 1..Len(conversation[Len(conversation) - 1].content) :
          LET b == conversation[Len(conversation) - 1].content[i]
          IN b.type = "tool_result" /\ b.content = <<"tool not found">>

\* C6: every tool result in the conversation sits in a turn that directly
\* follows an assistant turn, and carries the id of one of that assistant
\* turn's tool-use items; so it names no call of an earlier round and no id
\* that was never requested.
C6_ResultIdsMatchPrecedingTurn ==
    \A i \in 1..Len(conversation) :
        \A j \in 1..Len(conversation[i].content) :
            conversation[i].content[j].type = "tool_result" =>
                /\ i > 1
                /\ conversation[i - 1].role = "assistant"
                /\ conversation[i].content[j].tool_use_id
                       \in Range(ToolUseIds(conversation[i - 1]))

\* C6's case: results of two different rounds are in the conversation.
C6_Witness ==
    \E i, k \in 1..Len(conversation) :
        /\ i < k
        /\ ToolResultBlocks(conversation[i]) # <<>>
        /\ ToolResultBlocks(conversation[k]) # <<>>

\* The part of the trace after the last inference call.
RECURSIVE SinceLastInfer(_)
SinceLastInfer(tr) ==
    IF tr = <<>> \/ tr[Len(tr)].ev = "infer" THEN <<>>
    ELSE Append(SinceLastInfer(SubSeq(tr, 1, Len(tr) - 1)), tr[Len(tr)])

\* The executions of the first n tool-use items of the current response, one
\* after the other.
RECURSIVE OneAtATime(_)
OneAtATime(n) ==
    IF n = 0 THEN <<>>
    ELSE OneAtATime(n - 1) \o <<ToolStart(CurrentToolUses[n].id), ToolEnd(CurrentToolUses[n].id)>>

\* C7: the tool-use items of a response are executed one at a time in the
\* order of the response: a tool starts only when every tool-use item before
\* it has returned, and the results are recorded in that same order.
C7_SequentialInOrder ==
    /\ Len(toolResults) <= Len(CurrentToolUses)
    /\ \A j \in 1..Len(toolResults) : toolResults[j].tool_use_id = CurrentToolUses[j].id
    /\ pc \in {"scan", "tool"} =>
          /\ Len(toolResults) = ToolUseCount(SubSeq(currentMessage.content, 1, idx - 1))
          /\ SinceLastInfer(trace) =
                OneAtATime(Len(toolResults))
                    \o (IF pc = "tool" THEN <<ToolStart(running.id)>> ELSE <<>>)
    /\ pc = "tool" =>
          /\ running = currentMessage.content[idx]
          /\ running = CurrentToolUses[Len(toolResults) + 1]

\* C7's case: the second tool of a response runs after the first returned.
C7_Witness == pc = "tool" /\ Len(toolResults) = 1 /\ Len(CurrentToolUses) = 2

\* C8: the results of a round are in the conversation as exactly one turn that
\* directly follows the assistant turn and holds exactly one result per
\* tool-use item, in order, and nothing else; the turn is appended when the
\* last tool has finished, by the step that issues the next inference call.
C8_OneBatchPerRound ==
    \A i \in 1..Len(conversation) :
        /\ (conversation[i].role = "assistant" /\ ToolUseBlocks(conversation[i]) # <<>>) =>
              IF i < Len(conversation)
              THEN /\ conversation[i + 1].role = "user"
                   /\ ToolResultIds(conversation[i + 1]) = ToolUseIds(conversation[i])
                   /\ Len(conversation[i + 1].content) = Len(ToolUseBlocks(conversation[i]))
              ELSE pc \in {"scan", "tool"}
        /\ ToolResultBlocks(conversation[i]) # <<>> =>
              /\ i > 1
              /\ conversation[i - 1].role = "assistant"
              /\ ToolUseBlocks(conversation[i - 1]) # <<>>
C8_BatchStep ==
    (/\ Len(conversation') > Len(conversation)
     /\ ToolResultBlocks(conversation'[Len(conversation')]) # <<>>) =>
        /\ pc = "scan" /\ idx > Len(currentMessage.content)
        /\ Len(toolResults) = Len(CurrentToolUses)
        /\ pc' = "followup_inference"
        /\ request'.messages = conversation'
C8_ResultsAsOneTurn == []C8_OneBatchPerRound /\ [][C8_BatchStep]_vars

\* C8's case: a round with two tool-use items has its batch in the conversation.
C8_Witness ==
    /\ pc = "followup_inference"
    /\ Len(ToolResultBlocks(conversation[Len(conversation)])) = 2

\* C9: the conversation is append-only: every step leaves it alone or adds
\* exactly one turn at its end, whether the invocation succeeds or fails, so
\* every earlier conversation is a prefix of every later one.
C9_AppendStep ==
    /\ IsPrefix(conversation, conversation')
    /\ Len(conversation') <= Len(conversation) + 1
C9_AppendOnly == []IsPrefix(convAtStart, conversation) /\ [][C9_AppendStep]_vars

\* C9's case: an invocation that failed was followed by one that succeeded.
C9_Witness ==
    /\ pc = "idle" /\ ret = "nil"
    /\ Len(conversation) >= 3
    /\ conversation[1].role = "user" /\ conversation[2].role = "user"
    /\ conversation[2].content[1].type = "text"

\* C10: an inference call in flight carries the whole conversation: every turn
\* of the earlier invocations and rounds and, last, the user turn appended by
\* the step that issued the call.
C10_RequestIsConversation ==
    InFlight =>
        /\ request.messages = conversation
        /\ IsPrefix(convAtStart, request.messages)
        /\ Len(request.messages) > Len(convAtStart)
        /\ request.messages[Len(request.messages)].role = "user"
C10_IssueStep ==
    (~InFlight /\ pc' \in {"first_inference", "followup_inference"}) =>
        /\ Len(conversation') = Len(conversation) + 1
        /\ request'.messages = conversation'
C10_FullConversationSent == []C10_RequestIsConversation /\ [][C10_IssueStep]_vars

\* C10's case: a follow-up call of a later invocation.
C10_Witness == pc = "followup_inference" /\ Len(convAtStart) >= 2

\* The content blocks of the assistant turns that SendMessage has scanned so
\* far, in order: every earlier response whole, the current one up to the
\* item the range loop stands at (that item included while its tool runs).
RECURSIVE Contents(_)
Contents(turns) == IF turns = <<>> THEN <<>> ELSE Head(turns).content \o Contents(Tail(turns))

ScannedBlocks ==
    LET asst == SelectSeq(conversation, LAMBDA t : t.role = "assistant")
    IN IF pc \in {"scan", "tool"}
       THEN Contents(SubSeq(asst, 1, Len(asst) - 1))
                \o SubSeq(asst[Len(asst)].content, 1, IF pc = "tool" THEN idx ELSE idx - 1)
       ELSE Contents(asst)

\* The events a sequence of content blocks gives rise to: a non-empty text is
\* its own event, a tool use the status line of its tool.
RECURSIVE EventsOf(_)
EventsOf(blocks) ==
    IF blocks = <<>> THEN <<>>
    ELSE (IF Head(blocks).type = "text"
          THEN (IF Head(blocks).text # <<>> THEN <<Head(blocks).text>> ELSE <<>>)
          ELSE <<StatusMessage(Head(blocks).name)>>)
         \o EventsOf(Tail(blocks))

IsStatus(event) == event # <<>> /\ Head(event) = "*"
StatusCount(events) == Cardinality({i \in 1..Len(events) : IsStatus(events[i])})

\* C11: the event stream is, at every moment, the events of the content items
\* scanned so far in the order of the items: a text item's event is emitted
\* by the step that scans it, so it is in the stream before any later
\* tool-use item of the response starts executing, and interleaved text and
\* tool-call items keep their relative order.
C11_StreamFollowsItems == emitted = EventsOf(ScannedBlocks)
C11_TextStep ==
    (/\ pc = "scan" /\ idx <= Len(currentMessage.content)
     /\ currentMessage.content[idx].type = "text"
     /\ currentMessage.content[idx].text # <<>>
     /\ idx' = idx + 1) =>
        /\ emitted' = Append(emitted, currentMessage.content[idx].text)
        /\ trace' = trace
C11_EventsInItemOrder == []C11_StreamFollowsItems /\ [][C11_TextStep]_vars

\* C11's case: a response's text was emitted and the tool-use item after it
\* is executing.
C11_Witness ==
    /\ pc = "tool" /\ idx = 2
    /\ currentMessage.content[1].type = "text"
    /\ emitted = <<currentMessage.content[1].text, StatusMessage(running.name)>>

\* The tool-use items of the current response that the range loop has not met yet.
PendingToolUses ==
    IF pc = "scan" THEN ToolUseCount(SubSeq(currentMessage.content, idx,
                                            Len(currentMessage.content)))
    ELSE IF pc = "tool" THEN ToolUseCount(SubSeq(currentMessage.content, idx + 1,
                                                 Len(currentMessage.content)))
    ELSE 0

\* C12: the stream holds exactly one status event per tool-use item met so
\* far; the step that starts a tool's execution is the one that emits its
\* status event, which is the stream's last event for as long as the handler
\* runs; the handler's return emits nothing.
C12_OneStatusPerToolUse == StatusCount(emitted) = toolUses - PendingToolUses
C12_StatusWhileRunning ==
    pc = "tool" => (emitted # <<>> /\ emitted[Len(emitted)] = StatusMessage(running.name))
C12_StartStep ==
    /\ CountEv(trace', "tool_start") > CountEv(trace, "tool_start") =>
          /\ pc = "scan"
          /\ emitted' = Append(emitted, StatusMessage(currentMessage.content[idx].name))
          /\ CountEv(trace', "tool_start") = CountEv(trace, "tool_start") + 1
    /\ pc = "tool" => emitted' = emitted
C12_StatusBeforeExecution ==
    []C12_OneStatusPerToolUse /\ []C12_StatusWhileRunning /\ [][C12_StartStep]_vars

\* C12's case: the second tool of a response is executing, two status events
\* are in the stream.
C12_Witness ==
    pc = "tool" /\ Len(toolResults) = 1 /\ StatusCount(emitted) = 2

\* C13: once the caller's context is cancelled, a SendMessage that stands
\* before an inference call (at its start, or with a round's results in hand)
\* issues no call: it returns, with an outcome that says "cancelled" and is
\* neither nil nor the provider's error.
C13_CancelStep ==
    (cancelled /\ (pc = "idle" \/ (ScanDone /\ toolResults # <<>>))) =>
        \/ UNCHANGED vars
        \/ (pc' = "idle" /\ ret' = "cancelled" /\ request' = request)
C13_CancellationHonoured == [][C13_CancelStep]_vars

\* The tool-use item whose handler returned last, and its result.
ToolExecuted == toolResults # <<>> /\ pc \in {"scan", "followup_inference"}
LastCall == CurrentToolUses[Len(toolResults)]
LastResult == toolResults[Len(toolResults)]
HandlerReturned == ToolExecuted /\ LastCall.name \in ToolNames

BackendScripts ==
    {"scripts/uno_list_slides.py", "scripts/uno_read_slide.py", "scripts/uno_edit_slide.py",
     "scripts/uno_add_slide.py", "scripts/uno_delete_slide.py"}
IsBackend(c) == c.cmd \in BackendScripts
\* Every conversion starts with the libreoffice command.
IsExport(c) == c.cmd = "libreoffice"
BackendCount == Cardinality({i \in 1..Len(calls) : IsBackend(calls[i])})
ExportCount == Cardinality({i \in 1..Len(calls) : IsExport(calls[i])})

MutatingTools == {"edit_slide_text", "add_slide", "delete_slide"}
IndexedTools == {"read_slide", "edit_slide_text", "delete_slide"}

\* The handler got as far as the backend command, and the command printed a
\* JSON object whose success field is true.
BackendSucceeded == BackendCount = 1 /\ IsBackend(calls[1]) /\ world.backend = "success"
ExportFails == world.convert # "ok" \/ world.slides = 0

\* C14: a call of any of the six tools whose decoded input names no
\* presentation, made while none is loaded, ends in the is_error result "no
\* presentation loaded" and has run no command, neither the backend's nor the
\* conversion's; made while one is loaded, it does not end in that error and
\* every command it has run was given the loaded presentation's path.
C14_OmittedPathResolved ==
    (/\ HandlerReturned
     /\ LastCall.input.decodes
     /\ LastCall.input.presentation_path = "") =>
        IF currentPresentationPath = ""
        THEN /\ LastResult.is_error
             /\ LastResult.content =
                    <<"no presentation loaded - please load a presentation first">>
             /\ calls = <<>>
        ELSE /\ LastResult.content #
                    <<"no presentation loaded - please load a presentation first">>
             /\ \A i \in 1..Len(calls) : calls[i].path = currentPresentationPath
             /\ (LastResult.is_error /\ Head(LastResult.content) = "presentation file not found: ")
                    => LastResult.content[2] = currentPresentationPath

\* C14's case: the edit tool is called without a path while nothing is loaded.
C14_Witness ==
    /\ HandlerReturned
    /\ LastCall.name = "edit_slide_text"
    /\ LastCall.input.decodes /\ LastCall.input.presentation_path = ""
    /\ LastCall.input.slide_number = 1 /\ LastCall.input.target_type = "shape_type"
    /\ currentPresentationPath = ""
    /\ world.fileExists /\ world.backend = "success"
    /\ LastResult.is_error

\* C15: read_slide, edit_slide_text and delete_slide called with a
\* slide_number of 0 or less end in an error result and have run no command;
\* called with slide_number 1 they do not end in the index error.
C15_IndexValidated ==
    (HandlerReturned /\ LastCall.name \in IndexedTools) =>
        /\ LastCall.input.slide_number < 1 => (LastResult.is_error /\ calls = <<>>)
        /\ (LastCall.input.decodes /\ LastCall.input.slide_number = 1) =>
               LastResult.content # <<"slide_number must be 1 or greater">>

\* C15's case: an edit that is valid but for its slide_number 0, on a file
\* that exists, with a backend that would have succeeded.
C15_Witness ==
    /\ HandlerReturned
    /\ LastCall.name = "edit_slide_text"
    /\ LastCall.input.decodes /\ LastCall.input.slide_number = 0
    /\ LastCall.input.target_type = "shape_type" /\ LastCall.input.target_value = "title"
    /\ LastCall.input.new_text = "Hello"
    /\ currentPresentationPath = DeckPath
    /\ world.fileExists /\ world.backend = "success"
    /\ LastResult.content = <<"slide_number must be 1 or greater">>

\* C16: every slide number a tool is given is validated: a call with a
\* slide_number below 1, with an entry of slide_numbers below 1, or with a
\* negative position ends in an error result.
C16_EveryIdentifierValidated ==
    (HandlerReturned /\ LastCall.input.decodes) =>
        /\ (LastCall.name \in IndexedTools /\ LastCall.input.slide_number < 1)
              => LastResult.is_error
        /\ (/\ LastCall.name = "export_slides"
            /\ \E k \in 1..Len(LastCall.input.slide_numbers) :
                  LastCall.input.slide_numbers[k] < 1)
              => LastResult.is_error
        /\ (LastCall.name = "add_slide" /\ LastCall.input.position < 0)
              => LastResult.is_error

\* C17: when a mutating tool's backend command has returned success = true,
\* the handler has made exactly one export attempt before it returned, and
\* made it after the backend command.
C17_OneExportAfterSuccess ==
    (HandlerReturned /\ LastCall.name \in MutatingTools /\ BackendSucceeded) =>
        /\ ExportCount = 1
        /\ Len(calls) >= 2
        /\ IsExport(calls[2])
        /\ calls[2].path = calls[1].path

\* C17's case: an edit succeeded and its export ran to the end.
C17_Witness ==
    /\ HandlerReturned
    /\ LastCall.name = "edit_slide_text"
    /\ BackendSucceeded
    /\ ~ExportFails
    /\ Len(calls) = 3

\* C18: when the export after a successful mutation fails, the tool result
\* is a success whose content is the backend's output as printed, the
\* failure is printed as one warning, and the agent's log records the tool as
\* completed.
C18_ExportFailureNotEscalated ==
    (/\ HandlerReturned /\ LastCall.name \in MutatingTools
     /\ BackendSucceeded /\ ExportFails) =>
        /\ ~LastResult.is_error
        /\ LastResult.content = <<"{\"success\": true}">>
        /\ Len(stdout) = 1
        /\ Head(stdout[1]) \in {"Warning: Failed to auto-export slide after edit: ",
                                 "Warning: Failed to export slides for preview: "}
        /\ \A i \in 1..Len(logFile) : logFile[i][4] # "TOOL_ERROR"

\* C18's case: a slide was added and LibreOffice failed to convert the deck.
C18_Witness ==
    /\ HandlerReturned
    /\ LastCall.name = "add_slide"
    /\ BackendSucceeded
    /\ world.convert = "libreoffice_failed"
    /\ ~LastResult.is_error

\* C19: a mutating tool whose backend command returned attempts an export
\* exactly when the backend's JSON result has success = true: a result with
\* success = false or without the field triggers none.
C19_ExportOnlyOnSuccess ==
    (/\ HandlerReturned /\ LastCall.name \in MutatingTools
     /\ BackendCount = 1) =>
        (ExportCount > 0 <=> world.backend = "success")

\* C20: raw input that does not decode ends, for every tool, in an is_error
\* result that says so, and the handler has run no command.
C20_UndecodableInputRejected ==
    (HandlerReturned /\ ~LastCall.input.decodes) =>
        /\ LastResult.is_error
        /\ Head(LastResult.content) = "failed to parse input: "
        /\ calls = <<>>

\* C20's case: an edit whose slide_number is a string, with a path of its
\* own, on a file that exists.
C20_Witness ==
    /\ HandlerReturned
    /\ LastCall.name = "edit_slide_text"
    /\ LastCall.input = MistypedInput
    /\ world.fileExists /\ world.backend = "success"
    /\ LastResult.is_error

\* C21: when the backend command of a tool exits nonzero or prints output
\* that is not JSON, the tool result is an error that says so, the output is
\* not handed on as the tool's result, and no export has been attempted.
C21_BackendFailureIsError ==
    (/\ HandlerReturned
     /\ BackendCount = 1
     /\ world.backend \in {"exit_nonzero", "not_json"}) =>
        /\ LastResult.is_error
        /\ Head(LastResult.content) \in
               {"failed to list slides: ", "failed to read slide: ", "failed to edit slide: ",
                "failed to add slide: ", "failed to delete slide: ",
                "invalid JSON output from UNO script: "}
        /\ ExportCount = 0
        /\ Len(calls) = 1
        /\ stdout = <<>>

\* C21's case: the backend of a valid delete printed text before its JSON.
C21_Witness ==
    /\ HandlerReturned
    /\ LastCall.name = "delete_slide"
    /\ LastCall.input.slide_number = 1
    /\ BackendCount = 1
    /\ world.backend = "not_json" /\ world.convert = "ok" /\ world.slides = 2
    /\ LastResult.is_error

\* The conditions under which a handler returns an error, read off the
\* handlers one by one: the input, the preconditions, the backend, the export.
HandlerFails(call, appPath, env) ==
    \/ ~call.input.decodes
    \/ call.input.presentation_path = "" /\ appPath = ""
    \/ call.name \in {"list_slides", "edit_slide_text"} /\ ~env.fileExists
    \/ call.name \in IndexedTools /\ call.input.slide_number < 1
    \/ /\ call.name = "edit_slide_text"
       /\ \/ call.input.target_type = ""
          \/ call.input.target_value = ""
          \/ call.input.new_text = ""
          \/ call.input.target_type = "text_replace" /\ call.input.old_text = ""
    \/ call.name # "export_slides" /\ env.backend \in {"exit_nonzero", "not_json"}
    \/ call.name \in {"add_slide", "delete_slide"} /\ env.backend = "not_object"
    \/ call.name = "export_slides" /\ (env.convert # "ok" \/ env.slides = 0)

\* C22: a tool execution hands the loop exactly one tool-result block, for
\* the id of the call, and nothing else: the loop goes on scanning and
\* SendMessage has returned nothing.  The block is an error exactly when the
\* name is unregistered or the handler returned an error; otherwise it
\* carries the handler's output, which the log records as the tool's result.
C22_ResultBlock ==
    ToolExecuted =>
        /\ Len(toolResults) = ToolUseCount(SubSeq(currentMessage.content, 1, idx - 1))
        /\ LastResult.type = "tool_result"
        /\ LastResult.tool_use_id = LastCall.id
        /\ LastResult.is_error <=>
               \/ LastCall.name \notin ToolNames
               \/ HandlerFails(LastCall, currentPresentationPath, world)
        /\ LastCall.name \notin ToolNames => LastResult.content = <<"tool not found">>
        /\ ~LastResult.is_error =>
               /\ LastResult.content # <<>>
               /\ \E i \in 1..Len(logFile) :
                     logFile[i] = LogEntry("TOOL_RESULT",
                                           <<"Tool ", LastCall.name, " completed">>,
                                           LastResult.content)
C22_ResultStep ==
    Len(toolResults') > Len(toolResults) =>
        /\ toolResults' = Append(toolResults, toolResults'[Len(toolResults')])
        /\ pc' = "scan" /\ ret' = "pending"
        /\ idx' = idx + 1
        /\ conversation' = conversation
C22_ExactlyOneResultBlock == []C22_ResultBlock /\ [][C22_ResultStep]_vars

\* C22's case: list_slides met a missing file, and the error went to the
\* provider as the round's result.
C22_Witness ==
    /\ pc = "followup_inference"
    /\ LastCall.name = "list_slides"
    /\ LastCall.input.decodes
    /\ currentPresentationPath = DeckPath
    /\ ~world.fileExists
    /\ LastResult.is_error
    /\ conversation[Len(conversation)].content = <<LastResult>>

\* The types of the log's entries, in order.
LogTypes(file) == [i \in 1..Len(file) |-> file[i][4]]
IsOutcome(t) == t \in {"TOOL_ERROR", "TOOL_RESULT"}
Added(file, file2) == SubSeq(file2, Len(file) + 1, Len(file2))

\* C23: the step that starts a tool execution writes its entry record
\* (TOOL_CALL, and TOOL_DEBUG once the tool is found) before the handler is
\* invoked; the step that ends it writes exactly one outcome record, an error
\* record for an is_error result and a result record otherwise, carrying what
\* the result block carries; while the handler runs the entry is the log's
\* last record; entry and outcome records pair up.
C23_EntryLogged ==
    /\ pc = "tool" =>
          /\ Len(logFile) >= 2
          /\ logFile[Len(logFile) - 1] =
                LogEntry("TOOL_CALL", <<"Tool: ", running.name>>, RawInput(running.input))
          /\ logFile[Len(logFile)][4] = "TOOL_DEBUG"
    /\ Cardinality({i \in 1..Len(logFile) : logFile[i][4] = "TOOL_CALL"})
          = Cardinality({i \in 1..Len(logFile) : IsOutcome(logFile[i][4])})
              + (IF pc = "tool" THEN 1 ELSE 0)
C23_LogStep ==
    /\ IsPrefix(logFile, logFile')
    /\ CountEv(trace', "tool_start") > CountEv(trace, "tool_start") =>
          LogTypes(Added(logFile, logFile')) =
              IF pc' = "tool" THEN <<"ASSISTANT", "TOOL_CALL", "TOOL_DEBUG">>
              ELSE <<"ASSISTANT", "TOOL_CALL", "TOOL_ERROR">>
    /\ (pc = "tool" /\ pc' # "tool") =>
          /\ Len(toolResults') = Len(toolResults) + 1
          /\ Len(logFile') = Len(logFile) + 1
          /\ logFile'[Len(logFile')] =
                IF toolResults'[Len(toolResults')].is_error
                THEN LogEntry("TOOL_ERROR", <<"Tool ", running.name, " failed">>,
                              toolResults'[Len(toolResults')].content)
                ELSE LogEntry("TOOL_RESULT", <<"Tool ", running.name, " completed">>,
                              toolResults'[Len(toolResults')].content)
C23_ExecutionAudited == []C23_EntryLogged /\ [][C23_LogStep]_vars

\* C23's case: an input that does not decode, logged as the tool's failure.
C23_Witness ==
    /\ pc = "scan"
    /\ HandlerReturned
    /\ ~LastCall.input.decodes
    /\ LogTypes(logFile) = <<"USER", "ASSISTANT", "TOOL_CALL", "TOOL_DEBUG", "TOOL_ERROR">>

\* C24: with the log file impossible to open, with no context, with both or
\* with neither, the loop makes the same steps: SendMessage appends the user
\* turn and issues its first call, every tool-use item is executed in order
\* and yields its result, the batch goes back in one turn, the loop stops
\* exactly on a response without tool use with nil, and an inference error is
\* returned as it is.  Nothing in the loop waits for a sink or reads what a
\* sink did.
C24_StartStep ==
    (pc = "idle" /\ conversation' # conversation) =>
        /\ pc' = "first_inference" /\ ret' = "pending"
        /\ request'.messages = conversation'
        /\ trace' = <<InferEvent>>
C24_ToolStep ==
    /\ CountEv(trace', "tool_start") > CountEv(trace, "tool_start") =>
          \/ pc' = "tool" /\ running' = currentMessage.content[idx]
          \/ pc' = "scan" /\ Len(toolResults') = Len(toolResults) + 1
    /\ pc = "tool" => (pc' = "tool" \/ (pc' = "scan" /\ Len(toolResults') = Len(toolResults) + 1))
C24_LoopState ==
    /\ C2_AlternatingRounds
    /\ C4_BatchComplete
    /\ C5_NoHandlerForUnknown
    /\ C6_ResultIdsMatchPrecedingTurn
    /\ C7_SequentialInOrder
    /\ C8_OneBatchPerRound
    /\ C10_RequestIsConversation
C24_LoopStep ==
    /\ C24_StartStep
    /\ C24_ToolStep
    /\ C1_StopStep
    /\ C3_FailStep
    /\ C4_ErrorStep
    /\ C5_UnknownStep
    /\ C8_BatchStep
    /\ C9_AppendStep
    /\ C10_IssueStep
C24_SinkFailureLeavesLoopAlone == []C24_LoopState /\ [][C24_LoopStep]_vars

\* C24's case: with no context and no log file an invocation ran a round of
\* tools, sent the results and returned nil; neither sink holds anything.
C24_Witness ==
    /\ appCtx = "nil" /\ ~logWritable
    /\ pc = "idle" /\ ret = "nil"
    /\ Len(rounds) = 2 /\ rounds[1] >= 1
    /\ CountEv(trace, "tool_end") = rounds[1]
    /\ logFile = <<>> /\ emitted = <<>>

\* The ASSISTANT entries of the log, in order.
AssistantEntries(file) == SelectSeq(file, LAMBDA e : e[4] = "ASSISTANT")

\* C25: when the log file can be written, it holds one ASSISTANT entry for
\* every assistant text and every tool status message of the items scanned so
\* far, in order, whether or not SendMessage was given a context.
C25_AuditIndependentOfLiveChannel ==
    logWritable =>
        AssistantEntries(logFile) =
            [i \in 1..Len(EventsOf(ScannedBlocks)) |->
                LogEntry("ASSISTANT", EventsOf(ScannedBlocks)[i], <<>>)]

\* C26: every inference call, the first of an invocation and every follow-up,
\* of the first invocation and of every later one, carries the six tool
\* descriptors list_slides, read_slide, edit_slide_text, export_slides,
\* add_slide, delete_slide in that order; every step that issues a call puts
\* that list into the request, and the lookup of executeTool knows exactly
\* those six names.
Catalogue ==
    <<"list_slides", "read_slide", "edit_slide_text", "export_slides", "add_slide",
      "delete_slide">>
C26_CatalogueInRequest ==
    /\ InFlight => request.tools = Catalogue
    /\ \A name \in Range(Catalogue) \cup {"rename_deck"} :
          Found(name) <=> name \in Range(Catalogue)
C26_IssueStep == request' # request => request'.tools = Catalogue
C26_CatalogueFixed == []C26_CatalogueInRequest /\ [][C26_IssueStep]_vars

\* C26's case: the follow-up call of a second invocation.
C26_Witness ==
    /\ pc = "followup_inference"
    /\ Len(convAtStart) >= 2
    /\ request.tools = Catalogue

\* C30: the step that starts an invocation appends exactly one turn, a user
\* turn with one text block, and issues the first inference call with it as
\* the last message; the text is "Current presentation loaded: <path>" and
\* "User request: <text>" when the App has a presentation, the user's text
\* alone when it has none.  Nothing else is appended before that call returns.
ExpectedUserTurn(path, userMessage) ==
    [role |-> "user",
     content |-> <<[type |-> "text",
                    text |-> IF path = "" THEN <<userMessage>>
                             ELSE <<"Current presentation loaded: ", path,
                                    "\n\nUser request: ", userMessage>>]>>]
C30_UserTurnPending ==
    pc = "first_inference" =>
        /\ Len(conversation) = Len(convAtStart) + 1
        /\ IsPrefix(convAtStart, conversation)
        /\ \E m \in UserMessages :
              conversation[Len(conversation)] = ExpectedUserTurn(currentPresentationPath, m)
        /\ request.messages = conversation
C30_StartStep ==
    (pc = "idle" /\ pc' # "idle") =>
        /\ pc' = "first_inference"
        /\ \E m \in UserMessages :
              conversation' = Append(conversation, ExpectedUserTurn(currentPresentationPath, m))
        /\ CountEv(trace', "infer") = 1
C30_OneEnhancedUserTurn == []C30_UserTurnPending /\ [][C30_StartStep]_vars

\* C30's case: a second invocation with a presentation loaded has appended
\* its enhanced turn and waits for the first inference call.
C30_Witness ==
    /\ pc = "first_inference"
    /\ currentPresentationPath = DeckPath
    /\ Len(convAtStart) >= 2
    /\ Len(conversation[Len(conversation)].content[1].text) = 4

\* C27: at most one inference call of the agent is in flight at a time,
\* whatever the order in which SendMessageToAI calls arrive.
C27_NoOverlappingInference == ~(InFlight /\ other.pc = "first_inference")

\* C28: no read of the active path is about to happen together with a write
\* to it, and no read of the image cache together with a write to it, by two
\* different calls.
C28_NoReadOverlapsWrite ==
    /\ ~(ReadsPath /\ WritesPath)
    /\ ~(ReadsCache /\ WritesCache)

\* C29: a tool whose external process never terminates is given up after a
\* timeout: the loop gets an is_error result for it and goes on scanning.
C29_HungToolTimesOut ==
    (pc = "blocked") ~>
        (pc = "scan" /\ toolResults # <<>> /\ toolResults[Len(toolResults)].is_error)

\* C31: SendMessage returns nil only after a response without tool-use
\* items, and only after as many earlier responses with tool-use items as the
\* provider chose to send: it is still running after every response that
\* holds a tool-use item, whatever the number of rounds; and once a response
\* without tool-use items has arrived it does return nil.
C31_RunsWhileToolsRequested ==
    /\ (pc = "idle" /\ ret = "nil") =>
          /\ rounds # <<>>
          /\ rounds[Len(rounds)] = 0
          /\ \A i \in 1..(Len(rounds) - 1) : rounds[i] > 0
    /\ (rounds # <<>> /\ rounds[Len(rounds)] > 0 /\ ret # "provider error") =>
          (pc # "idle" /\ ret = "pending")
C31_TerminatesWithProvider ==
    /\ []C31_RunsWhileToolsRequested
    /\ (pc = "scan" /\ ToolUseCount(currentMessage.content) = 0)
          ~> (pc = "idle" /\ ret = "nil")

\* C31's case: an invocation that returned nil after a round with tools for
\* every inference call but the last the provider answered.
C31_Witness ==
    /\ pc = "idle" /\ ret = "nil"
    /\ Len(rounds) = MaxInferences
    /\ \A i \in 1..(Len(rounds) - 1) : rounds[i] > 0

\* C32: the conversation sent with an inference call alternates user and
\* assistant turns, beginning and ending with a user turn, also after an
\* invocation that ended in a provider error.
C32_RolesAlternate ==
    InFlight =>
        /\ request.messages # <<>>
        /\ \A i \in 1..Len(request.messages) :
              request.messages[i].role = (IF i % 2 = 1 THEN "user" ELSE "assistant")
        /\ request.messages[Len(request.messages)].role = "user"

\* C34: when SendMessage has returned nil, the last turn of the conversation
\* is an assistant turn without tool-use block, and the invocation, which made
\* k rounds with tool calls, has added exactly 2k + 2 turns: the user's, k
\* times an assistant's and the results', and the last assistant's.
C34_ShapeOnReturn ==
    (pc = "idle" /\ ret = "nil") =>
        /\ conversation[Len(conversation)].role = "assistant"
        /\ ToolUseBlocks(conversation[Len(conversation)]) = <<>>
        /\ conversation[Len(conversation)] = ToParam(currentMessage)
        /\ Len(conversation) = Len(convAtStart) + 2 * (Len(rounds) - 1) + 2
        /\ CountEv(trace, "infer") = Len(rounds)
        /\ \A i \in 1..(Len(rounds) - 1) : rounds[i] > 0

\* C34's case: k = 1 with two tools in the round, four turns added.
C34_Witness ==
    /\ pc = "idle" /\ ret = "nil"
    /\ rounds = <<2, 0>>
    /\ Len(conversation) = Len(convAtStart) + 4
    /\ Len(ToolResultBlocks(conversation[Len(conversation) - 1])) = 2

\* C33: in the conversation sent with an inference call, every assistant
\* turn that holds tool-use items is followed directly by a user turn whose
\* tool results carry the same ids in the same order; no tool use is left
\* unanswered, also when the invocation before aborted on a failed
\* follow-up inference.
C33_ToolUsesAnswered ==
    InFlight =>
        \A i \in 1..Len(request.messages) :
            (request.messages[i].role = "assistant"
             /\ ToolUseBlocks(request.messages[i]) # <<>>) =>
                /\ i < Len(request.messages)
                /\ request.messages[i + 1].role = "user"
                /\ ToolResultIds(request.messages[i + 1]) = ToolUseIds(request.messages[i])

\* C33's case: the invocation after an aborted one has run a tool and sends
\* its result; both rounds are in the request.
C33_Witness ==
    /\ pc = "followup_inference"
    /\ convAtStart = AbortedConversation
    /\ Len(request.messages) = 6
    /\ ToolUseIds(request.messages[2]) = <<1>>
    /\ ToolUseIds(request.messages[5]) = <<2>>
    /\ ToolUseBlocks(request.messages[5])[1].name = "list_slides"

\* C35: the active presentation path changes only in the step in which a
\* LoadPresentation whose conversion returned slides stores its absolute
\* path; a failed LoadPresentation, the tool handlers, SendMessageToAI and
\* every other step leave it alone, and a path once set is never emptied.
C35_PathStep ==
    currentPresentationPath' # currentPresentationPath =>
        /\ methods.load.pc = "store"
        /\ methods.load.slides # <<>>
        /\ methods.load.path \in {Abs(p) : p \in LoadPaths}
        /\ currentPresentationPath' = methods.load.path
        /\ methods'.load = NoCalls.load
C35_FailedLoadStep ==
    (methods.load.pc = "convert" /\ methods'.load.pc = "idle") =>
        currentPresentationPath' = currentPresentationPath
C35_HandlerStep ==
    (pc \in {"tool", "scan", "first_inference", "followup_inference"} /\ pc' # pc) =>
        currentPresentationPath' = currentPresentationPath
C35_NeverEmptied == currentPresentationPath # "" => currentPresentationPath' # ""
C35_OnlySuccessfulLoadSetsPath ==
    [][C35_PathStep /\ C35_FailedLoadStep /\ C35_HandlerStep /\ C35_NeverEmptied]_vars

\* C35's case: with a presentation loaded and a tool run on it, a second
\* LoadPresentation has converted another file and is about to store it.
C35_Witness ==
    /\ currentPresentationPath = DeckPath
    /\ methods.load.pc = "store"
    /\ methods.load.path = "/decks/other.pptx"
    /\ calls # <<>>

\* C38: the step in which SendMessageToAI returns, after SendMessage has
\* returned nil or an error, leaves the image cache empty, and SendMessage
\* itself never touches the cache; LoadPresentation empties the cache in its
\* first step, before the conversion, and a conversion that fails does not
\* bring the entries back.
C38_AIReturnStep ==
    (ret \in {"nil", "provider error"} /\ ret' # ret) =>
        /\ ret' = "none"
        /\ DOMAIN imageCache' = {}
C38_AgentStep == (ret' = "pending" /\ pc' # pc) => imageCache' = imageCache
C38_LoadStep ==
    /\ (methods.load.pc = "idle" /\ methods'.load.pc # "idle") => methods'.load.pc = "clear"
    /\ (methods.load.pc = "clear" /\ methods'.load.pc # "clear") =>
          /\ methods'.load.pc = "convert"
          /\ DOMAIN imageCache' = {}
    /\ (methods.load.pc = "convert" /\ methods'.load.pc # "convert") =>
          imageCache' = imageCache
C38_CacheEmptied == [][C38_AIReturnStep /\ C38_AgentStep /\ C38_LoadStep]_vars

\* C38's case: SendMessage has returned the provider's error with an image
\* cached, while a LoadPresentation that emptied the cache before is
\* converting.
C38_Witness ==
    /\ pc = "idle" /\ ret = "provider error"
    /\ DOMAIN imageCache # {}
    /\ methods.load.pc = "convert"

\* C36: a handler that ran in this invocation without a path of its own in
\* the input worked on the presentation named in the invocation's enhanced
\* user message, whatever LoadPresentation did meanwhile.
C36_HandlersUseNamedPresentation ==
    (ToolExecuted /\ calls # <<>> /\ LastCall.input.presentation_path = "") =>
        \E m \in UserMessages :
            conversation[Len(convAtStart) + 1] = ExpectedUserTurn(calls[1].path, m)

\* C37: whenever GetSlideImageAsBase64 or GetSlideImageQuiet finds the path
\* in the cache and serves the entry, the entry is the data URI of the bytes
\* the file has on disk at that moment.
C37_ServeStep ==
    (/\ methods.image.pc = "check"
     /\ methods.image.path \in DOMAIN imageCache
     /\ methods'.image.pc = "idle") =>
        /\ FileIndex(methods.image.path) \in DOMAIN disk
        /\ imageCache[methods.image.path]
              = DataURI(methods.image.path, disk[FileIndex(methods.image.path)])
C37_CacheNeverStale == [][C37_ServeStep]_vars

\* C39: the list a conversion returns to LoadPresentation holds exactly one
\* image for each slide of the presentation just converted.
C39_OneImagePerSlide ==
    methods.load.pc = "store" =>
        methods.load.slides = SlideFiles("slides", Pages(methods.load.path))

\* C40: a call of StartLibreOfficeHeadless starts soffice at most once, and
\* only after a probe that found port 8100 closed; after the start it probes
\* at most 10 times, returns nil at the first probe that finds the port open
\* and the error once 10 probes have failed; the call ends, after at most
\* the 11 dial timeouts and 10 sleeps.
C40_Bounded ==
    /\ service.launches <= 1
    /\ service.launches = 1 => service.first \in {"refused", "timeout"}
    /\ service.probes <= MaxProbes
    /\ service.probes > 0 => service.launches = 1
    /\ service.elapsed <= DialTimeoutMs + MaxProbes * (DialTimeoutMs + SleepMs)
    /\ service.last = "open" => (service.pc = "done" /\ service.ret = "nil")
    /\ service.ret = "nil" => service.last = "open"
    /\ service.ret = "LibreOffice headless service failed to start" =>
          /\ service.pc = "done"
          /\ service.probes = MaxProbes
          /\ service.last # "open"
    /\ (service.pc = "done" /\ service.probes = MaxProbes /\ service.last # "open") =>
          service.ret = "LibreOffice headless service failed to start"
C40_ProbeStep ==
    service'.probes # service.probes =>
        /\ service'.probes = service.probes + 1
        /\ service.last # "open"
C40_StartTerminates ==
    /\ []C40_Bounded
    /\ [][C40_ProbeStep]_vars
    /\ (service.pc = "check") ~> (service.pc = "done")

\* C40's case: soffice was started after a refused probe and all 10 probes
\* of the loop failed.
C40_Witness ==
    /\ service.pc = "done"
    /\ service.launches = 1
    /\ service.probes = MaxProbes
    /\ service.ret = "LibreOffice headless service failed to start"

====
